---- MODULE Spec2Model ----
(***************************************************************************)
(* Alpaca / NexStar telescope bridge (marrony/libalpaca).                  *)
(*                                                                         *)
(* The model follows the result-returning iteration of the sources:        *)
(*   result / visit / first_error      include/c++util.hpp (first copy)    *)
(*   error factories                   include/errors.hpp  (second copy)   *)
(*   device checks, put_connected      unnamed/part_005                    *)
(*   telescope facade, priv_ methods   include/telescope.hpp (third copy)  *)
(*     each priv_ method is one action: its gates, then its driver method  *)
(*   NexStar codec, simulator, driver  include/celestron/celestron.hpp     *)
(*                                                                         *)
(* Every float of the program is represented in fixed point: the integer   *)
(* x stands for the float x / Milli.  Wall-clock time is in whole seconds. *)
(***************************************************************************)
EXTENDS Integers, Sequences, FiniteSets, TLC

VARIABLES
  is_connected,          \* device::is_connected
  flags,                 \* telescope::telescopeinfo.flags (fixed at construction)
  targetdeclination,     \* celestron_telescope::targetdeclination
  targetrightascension,  \* celestron_telescope::targetrightascension
  sim,                   \* the simulator_protocol object behind the driver
  now,                   \* utcdate_t::now(), the wall clock, in whole seconds
  last,                  \* the most recent facade call: operation, arguments, outcome
  written,               \* history: the last value written to each target, or never
  vin,                   \* inputs of the stand-alone visit() check
  thread,                \* the locals of each handler thread of the HTTP server
  fd,                    \* serial::fd, the serial line shared by the handler threads
  server_transaction_id, \* the static counter of alpaca_resource::render
  history                \* history: the exchanges, resp. the requests, in order

vars == <<is_connected, flags, targetdeclination, targetrightascension,
          sim, now, last, written, vin,
          thread, fd, server_transaction_id, history>>

\* the state of one telescope and of the visit() check
tel == <<is_connected, flags, targetdeclination, targetrightascension,
         sim, now, last, written, vin>>

\* the state of the HTTP server's handler threads
srv == <<thread, fd, server_transaction_id, history>>

----------------------------------------------------------------------------
(* Bounds of the model *)

\* visit() is applied to at most this many results
MaxArgs == 3

\* fixed-point scale of the floats
Milli == 10 * 100

Abs(x) == IF x < 0 THEN -x ELSE x

Min(a, b) == IF a <= b THEN a ELSE b

\* a local of the code: v is computed once, F is the code that goes on with it
With(v, F(_)) == F(v)

\* C++ integer / float-to-int conversion: truncation toward zero
TruncDiv(a, b) == IF a >= 0 THEN a \div b ELSE -((-a) \div b)

\* std::fmod: the remainder keeps the sign of the dividend
fmod(a, b) == IF a >= 0 THEN a % b ELSE -((-a) % b)

----------------------------------------------------------------------------
(* errors.hpp: alpaca_error and its factories *)

alpaca_error(n, m) == [error_number |-> n, error_message |-> m]

not_implemented   == alpaca_error(1024, "Not implemented")
invalid_value     == alpaca_error(1025, "Invalid value")
value_not_set     == alpaca_error(1026, "Value not set")
not_connected     == alpaca_error(1031, "Not connected")
parked            == alpaca_error(1032, "Parked")
invalid_operation == alpaca_error(1035, "Invalid operation")

----------------------------------------------------------------------------
(* c++util.hpp: result<Tp, Err>.  Exactly one side is inhabited; the side   *)
(* that is not carries no_value, resp. no_error.  A result<void, Err>       *)
(* holding no error is Ok("void").                                          *)

no_error == alpaca_error(0, "")

no_value == "none"

Ok(v)  == [has_value |-> TRUE,  value |-> v,        error |-> no_error]
Err(e) == [has_value |-> FALSE, value |-> no_value, error |-> e]

OkVoid == Ok("void")

is_error(r) == ~r.has_value

\* result::map with a callable that returns the plain value v
map(r, v) == IF r.has_value THEN Ok(v) ELSE Err(r.error)

\* result::flat_map with a callable that returns the result fr
flat_map(r, fr) == IF r.has_value THEN fr ELSE Err(r.error)

\* __detail::first_error: the error of the leftmost result that holds one;
\* the last result is not tested (the caller saw that some result is an error)
RECURSIVE first_error(_)
first_error(ts) ==
  IF Len(ts) = 1 THEN ts[1].error
  ELSE IF is_error(ts[1]) THEN ts[1].error
  ELSE first_error(Tail(ts))

\* The callable handed to visit, as what one invocation of it does:
\*   kind  "plain": it returns a plain value (or nothing); "result": a result
\*   tp    the payload type of what it returns: "void" or "value"
\*   ret   the value or the result it returns
\*   post  the driver state the invocation leaves behind
\*   wire  the NexStar commands the invocation sends
Fn(kind, tp, ret, post, wire) ==
  [kind |-> kind, tp |-> tp, ret |-> ret, post |-> post, wire |-> wire]

\* visit as it would be if fn were invoked whatever the results hold
visit_unconditional(fn, ts, pre) ==
  IF \E i \in 1..Len(ts) : is_error(ts[i])
  THEN [res |-> Err(first_error(ts)), calls |-> 1, post |-> fn.post,
        wire |-> fn.wire, ret |-> fn.ret]
  ELSE IF fn.tp = "void"
  THEN [res |-> OkVoid, calls |-> 1, post |-> fn.post, wire |-> fn.wire,
        ret |-> fn.ret]
  ELSE [res |-> IF fn.kind = "result" THEN fn.ret ELSE Ok(fn.ret),
        calls |-> 1, post |-> fn.post, wire |-> fn.wire, ret |-> fn.ret]

\* visit(fn, ts...): an error among ts is returned without invoking fn.
\* Otherwise fn is invoked once; when Tp is void its return is dropped and a
\* default-constructed result is returned, else Ret is built from its return.
\* pre is the driver state before the call; ret is what the invocation of fn
\* returned, no_value when there was none.
visit(fn, ts, pre) ==
  IF \E i \in 1..Len(ts) : is_error(ts[i])
  THEN [res |-> Err(first_error(ts)), calls |-> 0, post |-> pre, wire |-> <<>>,
        ret |-> no_value]
  ELSE IF fn.tp = "void"
  THEN [res |-> OkVoid, calls |-> 1, post |-> fn.post, wire |-> fn.wire,
        ret |-> fn.ret]
  ELSE [res |-> IF fn.kind = "result" THEN fn.ret ELSE Ok(fn.ret),
        calls |-> 1, post |-> fn.post, wire |-> fn.wire, ret |-> fn.ret]

----------------------------------------------------------------------------
(* device (unnamed/part_005): the precondition predicates *)

\* check_connected as it would be if the connection were not looked at
check_connected_skipped == OkVoid

check_connected == IF ~is_connected THEN Err(not_connected) ELSE OkVoid

\* check_flag as it would be if an absent capability were let through
check_flag_lenient(flag) == flat_map(flag, OkVoid)

check_flag(flag) ==
  flat_map(flag, IF flag.has_value /\ ~flag.value THEN Err(not_implemented) ELSE OkVoid)

check_op(completed) == IF ~completed THEN Err(invalid_operation) ELSE OkVoid

check_value(correct) == IF ~correct THEN Err(invalid_value) ELSE OkVoid

check_set(set) == IF ~set THEN Err(value_not_set) ELSE OkVoid

----------------------------------------------------------------------------
(* telescope_flags_t and the capability getters of telescope *)

none                         == 0
can_find_home                == 1
can_park                     == 2
can_pulse_guide              == 4
can_set_declination_rate     == 8
can_set_guide_rates          == 16
can_set_park                 == 32
can_set_pier_side            == 64
can_set_right_ascension_rate == 128
can_set_tracking             == 256
can_slew                     == 512
can_slew_altaz               == 1024
can_slew_altaz_async         == 2048
can_slew_async               == 4096
can_sync                     == 8192
can_sync_altaz               == 16384
can_unpark                   == 32768
can_move_axis_0              == 65536
can_move_axis_1              == 131072
can_move_axis_2              == 262144

\* get_can as it would be if the getters were gated on the connection
get_can_connected(mask) ==
  IF ~is_connected THEN Err(not_connected)
  ELSE Ok(mask # 0 /\ (flags \div mask) % 2 = 1)

\* telescope::get_can(can_find_home) ... get_can(can_unpark), each with its own mask:
\* (flags & mask) != 0, for a mask of one bit or of no bit at all
get_can(mask) == Ok(mask # 0 /\ (flags \div mask) % 2 = 1)


\* can_move_axis_0 << axis on a 32-bit int.  For 0 <= axis < 15 the mask is
\* bit 16 + axis; for 15 <= axis < 32 the bit is the sign bit or shifted out,
\* and no flag word of the model has a bit there; any other shift count is
\* undefined, and the flag read is then whatever the build yields (ub).
get_canmoveaxis(axis, ub) ==
  IF axis >= 0 /\ axis < 15 THEN get_can(can_move_axis_0 * 2^axis)
  ELSE IF axis >= 15 /\ axis < 32 THEN Ok(FALSE)
  ELSE Ok(ub)

----------------------------------------------------------------------------
(* celestron.hpp: the NexStar codec *)

\* tracking_mode_kind
off      == 0
alt_azm  == 1
eq_north == 2
eq_south == 3

\* device_kind
azm_motor == 16
alt_motor == 17

\* passthrough_command_kind
slew_variable_positive == 6
slew_variable_negative == 7

\* the response sentinel '#'
Hash == 35

\* The driver passes precise = false to every codec call, so angles travel as
\* 16-bit fractions of a turn: k = 360 / 2^16 = 5625 / 1024 thousandths of a
\* degree per unit.
NexNum == 5625

NexDen == 1024

\* nexstar_protocol::nexstar_to_degree(value, false): value * 360 / 2^16
nexstar_to_degree(value) == (value * NexNum) \div NexDen

\* nexstar_protocol::degree_to_nexstar(angle, false):
\* static_cast<uint32_t>(fmod(angle, 360) * 2^16 / 360).  The cast of a float
\* at or below -1 to an unsigned integer is undefined: the build either
\* saturates to 0 or wraps modulo 2^32 (ub); the negative number v stands
\* for the wrapped value 2^32 + v.
degree_to_nexstar(angle, ub) ==
  LET v == TruncDiv(fmod(angle, 360 * Milli) * NexDen, NexNum)
  IN  IF v >= 0 THEN v
      ELSE IF ub THEN 0 ELSE v

\* nexstar_protocol::fix_declination: [0, 360] to [-90, +90]
fix_declination(angle) ==
  LET m == fmod(angle, 360 * Milli)
      a == IF m < 0 THEN m + 360 * Milli ELSE m
  IN  IF a > 90 * Milli /\ a <= 270 * Milli THEN 180 * Milli - a
      ELSE IF a > 270 * Milli /\ a <= 360 * Milli THEN a - 360 * Milli
      ELSE a

\* astronomy::dms_t(float angle): degree, minute, second of fmod(angle, 360)
dms_t(angle) ==
  LET a == fmod(angle, 360 * Milli)
      angle_secs == IF a >= 0
                    THEN TruncDiv(a * 3600 + Milli \div 2, Milli)
                    ELSE TruncDiv(a * 3600 - Milli \div 2, Milli)
      secs == Abs(angle_secs) % 3600
  IN  [degree |-> TruncDiv(angle_secs, 3600),
       minute |-> secs \div 60,
       second |-> secs % 60]

\* astronomy::dms_t::to_decimal
to_decimal(dms) ==
  LET fraction == ((dms.minute * 60 + dms.second) * Milli) \div 3600
  IN  IF dms.degree < 0 THEN dms.degree * Milli - fraction
      ELSE dms.degree * Milli + fraction

\* location_t(latitude, longitude): the 8 payload bytes of 'W' and of the
\* reply to 'w'
location_t(latitude, longitude) ==
  LET lat == dms_t(latitude)
      lon == dms_t(longitude)
  IN  [latitude_degree  |-> Abs(lat.degree) % 256,
       latitude_minute  |-> lat.minute,
       latitude_second  |-> lat.second,
       is_south         |-> IF latitude >= 0 THEN 0 ELSE 1,
       longitude_degree |-> Abs(lon.degree) % 256,
       longitude_minute |-> lon.minute,
       longitude_second |-> lon.second,
       is_west          |-> IF longitude >= 0 THEN 0 ELSE 1]

\* location_t::parse
location_parse(loc) ==
  LET lat == to_decimal([degree |-> loc.latitude_degree,
                         minute |-> loc.latitude_minute,
                         second |-> loc.latitude_second])
      lon == to_decimal([degree |-> loc.longitude_degree,
                         minute |-> loc.longitude_minute,
                         second |-> loc.longitude_second])
  IN  [latitude  |-> IF loc.is_south = 1 THEN -lat ELSE lat,
       longitude |-> IF loc.is_west = 1 THEN -lon ELSE lon]

\* slew_variable_command_t(axis, rate): the 8 bytes of the pass-through
slew_variable_command_t(axis, rate) ==
  LET rate_abs == Abs(rate * 3600 * 4) \div Milli
      command  == IF rate >= 0 THEN slew_variable_negative
                  ELSE slew_variable_positive
      device   == IF axis = 0 THEN azm_motor ELSE alt_motor
      hi       == (rate_abs \div 256) % 256
      lo       == rate_abs % 256
  IN  <<"P", 2 + 1, device, command, hi, lo, 0, 0>>

\* slew_variable_command_t::parse
slew_variable_parse(cmd) ==
  LET rate_int == cmd[5] * 256 + cmd[6]
  IN  IF cmd[3] \notin {azm_motor, alt_motor}
        \/ cmd[4] \notin {slew_variable_positive, slew_variable_negative}
      THEN [parsed |-> FALSE, axis |-> 0, rate |-> 0]
      ELSE [parsed |-> TRUE,
            axis   |-> IF cmd[3] = azm_motor THEN 0 ELSE 1,
            rate   |-> IF cmd[4] = slew_variable_positive
                       THEN (rate_int * Milli) \div (3600 * 4)
                       ELSE -((rate_int * Milli) \div (3600 * 4))]

\* number of digits that %04X prints
RECURSIVE HexWidth(_)
HexWidth(v) ==
  IF v < 0 THEN 8
  ELSE IF v < 65536 THEN 4 ELSE 1 + HexWidth(v \div 16)

----------------------------------------------------------------------------
(* celestron.hpp: simulator_protocol *)

\* simulator_protocol::step(target, actual, delta_time), one axis
step_axis(target, actual, delta_time) ==
  LET diff == target - actual
      dist == Abs(diff)
      rate4 == IF dist <= 5 * Milli THEN 1
               ELSE IF dist <= 10 * Milli THEN 2
               ELSE IF dist <= 20 * Milli THEN 3
               ELSE 4
  IN  IF dist <= Milli \div 10 THEN target
      ELSE actual + Min(TruncDiv(diff * rate4, 4), 9 * Milli) * delta_time

\* step() as it would be if every step brought the mount to rest
step_stopping(s) == [s EXCEPT !.last_ts = now, !.state = "no_op"]

\* simulator_protocol::step(): advance by the wall-clock time since last_ts
step(s) ==
  LET delta_time == now - s.last_ts
      t == [s EXCEPT !.last_ts = now]
  IN  CASE s.state = "no_op" -> t
        [] s.state = "slewing" ->
             LET ra == step_axis(s.target_rightascension, s.rightascension, delta_time)
                 de == step_axis(s.target_declination, s.declination, delta_time)
                 is_slewing == s.target_rightascension # ra \/ s.target_declination # de
             IN  [t EXCEPT !.rightascension = ra,
                           !.declination = de,
                           !.state = IF ~is_slewing THEN "no_op" ELSE "slewing"]
        [] s.state = "moving" ->
             [t EXCEPT !.rightascension = s.rightascension + s.slew_rate[1] * delta_time,
                       !.declination = s.declination + s.slew_rate[2] * delta_time]

\* what send_command hands back: the byte count, the payload before the
\* sentinel, and the byte found where the caller expects the sentinel
Reply(s, n, payload, term) == [sim |-> s, n |-> n, payload |-> payload, term |-> term]

\* What the caller of send_command gets of the reply r when the transport is
\* a real line (serial_protocol): all of it; or, after a timeout of
\* serial::read, one byte less than expected ("short"); or the expected count
\* with another byte than '#' in the last place ("noise"); or -1 after a
\* failed open or write ("error").  The system calls of
\* serial_protocol::send_command can each fail: after a ::write that did not
\* take the whole command ("write") it returns -1; serial::read ends its
\* loop when ::read fails ("read") and returns the number of bytes it had
\* received, here none.  After a failed ::open ("open") nothing is sent: see
\* send_command.
line_read(fault, r) ==
  CASE fault = "short" -> [r EXCEPT !.n = IF @ > 0 THEN @ - 1 ELSE 0, !.term = 0]
    [] fault = "noise" -> [r EXCEPT !.term = 0]
    [] fault \in {"error", "write"} -> [r EXCEPT !.n = -1, !.term = 0]
    [] fault = "read" -> [r EXCEPT !.n = 0, !.term = 0]
    [] OTHER -> r

\* simulator_protocol::send_command.  in is the command: its opcode, then its
\* payload.  ext is what the coordinate-conversion library returns for 'Z',
\* and the fault of the line; ub settles the undefined float-to-unsigned casts.
send_command(s0, in, ext, ub) ==
  IF ext.fault = "open" THEN Reply(s0, -1, <<>>, 0) ELSE
  With(step(s0), LAMBDA s : line_read(ext.fault,
      CASE in[1] = "m" -> Reply(s, 2, <<20>>, Hash)
        [] in[1] = "h" ->
             Reply(s, 9, <<s.utcdate + (now - s.utcdate_updated)>>, Hash)
        [] in[1] = "H" ->
             Reply([s EXCEPT !.utcdate = in[2]], 1, <<>>, Hash)
        [] in[1] = "w" ->
             Reply(s, 9, <<location_t(s.latitude, s.longitude)>>, Hash)
        [] in[1] = "W" ->
             LET loc == location_parse(in[2])
             IN  Reply([s EXCEPT !.latitude = loc.latitude,
                                 !.longitude = loc.longitude], 1, <<>>, Hash)
        [] in[1] = "E" ->
             LET ra == degree_to_nexstar(s.rightascension, ub)
                 de == degree_to_nexstar(s.declination, ub)
             IN  Reply(s, 10, <<ra, de>>,
                       IF HexWidth(ra) = 4 /\ HexWidth(de) = 4 THEN Hash ELSE 0)
        [] in[1] = "Z" ->
             LET azm == degree_to_nexstar(ext.azimuth, ub)
                 alt == degree_to_nexstar(ext.altitude, ub)
             IN  Reply(s, 10, <<azm, alt>>,
                       IF HexWidth(azm) = 4 /\ HexWidth(alt) = 4 THEN Hash ELSE 0)
        [] in[1] = "t" -> Reply(s, 2, <<s.tracking_mode>>, Hash)
        [] in[1] = "T" -> Reply([s EXCEPT !.tracking_mode = in[2]], 1, <<>>, Hash)
        [] in[1] = "L" ->
             Reply(s, 2, <<IF s.state # "no_op" THEN "1" ELSE "0">>, Hash)
        [] in[1] = "M" ->
             Reply([s EXCEPT !.state = "no_op",
                             !.target_rightascension = s.rightascension,
                             !.target_declination = s.declination], 1, <<>>, Hash)
        [] in[1] = "R" ->
             Reply([s EXCEPT !.target_rightascension = nexstar_to_degree(in[2]),
                             !.target_declination = nexstar_to_degree(in[3]),
                             !.state = "slewing"], 1, <<>>, Hash)
        [] in[1] = "P" ->
             IF in[4] \in {slew_variable_positive, slew_variable_negative}
             THEN LET p == slew_variable_parse(in)
                  IN  IF p.parsed
                      THEN Reply([s EXCEPT !.slew_rate[p.axis + 1] = p.rate,
                                           !.state = IF p.rate # 0 THEN "moving"
                                                     ELSE "no_op"], 1, <<>>, Hash)
                      ELSE Reply([s EXCEPT !.state = "no_op"], 1, <<>>, Hash)
             ELSE Reply(s, 0, <<>>, 0)
        [] OTHER -> Reply(s, 0, <<>>, 0)))

----------------------------------------------------------------------------
(* celestron.hpp: nexstar_protocol, one exchange per method.  Each returns   *)
(* whether it completed, what it decoded, the transport state afterwards    *)
(* and the command it sent.                                                 *)

Exchange(completed, val, r, in) ==
  [completed |-> completed, val |-> val, sim |-> r.sim, wire |-> <<in>>]

get_ra_de(s, ext, ub) ==
  LET in == <<"E">>
  IN  With(send_command(s, in, ext, ub), LAMBDA r :
      IF r.n # 10 \/ r.term # Hash
      THEN Exchange(FALSE, [ra |-> 0, de |-> 0], r, in)
      ELSE Exchange(TRUE,
                    [ra |-> nexstar_to_degree(r.payload[1]) \div 15,
                     de |-> nexstar_to_degree(r.payload[2])], r, in))

goto_ra_de(s, ra, de, ext, ub) ==
  LET de1 == IF de < 0 THEN de + 360 * Milli ELSE de
      ra_int == degree_to_nexstar(ra * 15, ub)
      de_int == degree_to_nexstar(de1, ub)
      in == <<"R", ra_int, de_int>>
  IN  With(send_command(s, in, ext, ub), LAMBDA r :
      Exchange(r.n = 1 /\ r.term = Hash, "void", r, in))

get_azm_alt(s, ext, ub) ==
  LET in == <<"Z">>
  IN  With(send_command(s, in, ext, ub), LAMBDA r :
      IF r.n # 10 \/ r.term # Hash
      THEN Exchange(FALSE, [azm |-> 0, alt |-> 0], r, in)
      ELSE Exchange(TRUE,
                    [azm |-> nexstar_to_degree(r.payload[1]),
                     alt |-> nexstar_to_degree(r.payload[2])], r, in))

is_goto_in_progress(s, ext, ub) ==
  LET in == <<"L">>
  IN  With(send_command(s, in, ext, ub), LAMBDA r :
      IF r.n # 2 \/ r.term # Hash
      THEN Exchange(FALSE, FALSE, r, in)
      ELSE Exchange(TRUE, r.payload[1] = "1", r, in))

get_utcdate_wire(s, ext, ub) ==
  LET in == <<"h">>
  IN  With(send_command(s, in, ext, ub), LAMBDA r :
      IF r.n # 9 \/ r.term # Hash
      THEN Exchange(FALSE, IF ub THEN 0 ELSE 1, r, in)
      ELSE Exchange(TRUE, r.payload[1], r, in))

set_utcdate(s, utcdate, ext, ub) ==
  LET in == <<"H", utcdate>>
  IN  With(send_command(s, in, ext, ub), LAMBDA r :
      Exchange(r.n = 1 /\ r.term = Hash, "void", r, in))

get_location(s, ext, ub) ==
  LET in == <<"w">>
  IN  With(send_command(s, in, ext, ub), LAMBDA r :
      IF r.n # 9 \/ r.term # Hash
      THEN Exchange(FALSE, [latitude |-> 0, longitude |-> 0], r, in)
      ELSE Exchange(TRUE, location_parse(r.payload[1]), r, in))

set_location(s, latitude, longitude, ext, ub) ==
  LET in == <<"W", location_t(latitude, longitude)>>
  IN  With(send_command(s, in, ext, ub), LAMBDA r :
      Exchange(r.n = 1 /\ r.term = Hash, "void", r, in))

slew_variable(s, axis, rate, ext, ub) ==
  LET in == slew_variable_command_t(axis, rate)
  IN  With(send_command(s, in, ext, ub), LAMBDA r :
      Exchange(r.n = 1 /\ r.term = Hash, "void", r, in))

get_tracking_mode(s, ext, ub) ==
  LET in == <<"t">>
  IN  With(send_command(s, in, ext, ub), LAMBDA r :
      IF r.n # 2 \/ r.term # Hash
      THEN Exchange(FALSE, off, r, in)
      ELSE Exchange(TRUE, r.payload[1], r, in))

set_tracking_mode(s, mode, ext, ub) ==
  LET in == <<"T", mode>>
  IN  With(send_command(s, in, ext, ub), LAMBDA r :
      Exchange(r.n = 1 /\ r.term = Hash, "void", r, in))

cancel_goto(s, ext, ub) ==
  LET in == <<"M">>
  IN  With(send_command(s, in, ext, ub), LAMBDA r :
      Exchange(r.n = 1 /\ r.term = Hash, "void", r, in))

----------------------------------------------------------------------------
(* The driver-facing methods: celestron_telescope where it overrides,       *)
(* telescope otherwise.  Each is the callable of one facade method.  A      *)
(* method whose body is a single return of a constant is written where the  *)
(* facade calls it.                                                         *)

\* the state a driver method can change
Drv == [targetdeclination    |-> targetdeclination,
        targetrightascension |-> targetrightascension,
        sim                  |-> sim]

\* a method that touches neither the driver's fields nor the wire
Pure(tp, ret) == Fn("result", tp, ret, Drv, <<>>)

\* a method that made the exchange x and returns ret
Wired(tp, ret, x) == Fn("result", tp, ret, [Drv EXCEPT !.sim = x.sim], x.wire)

\* driver_rate_t::sidereal
sidereal == 0

\* destination_side_of_pier_t::pier_unknown
pier_unknown == -1

get_altitude(ext, ub) ==
  With(get_azm_alt(sim, ext, ub), LAMBDA x :
      Wired("value", map(check_op(x.completed), x.val.alt), x))

get_azimuth(ext, ub) ==
  With(get_azm_alt(sim, ext, ub), LAMBDA x :
      Wired("value", map(check_op(x.completed), x.val.azm), x))

get_declination(ext, ub) ==
  With(get_ra_de(sim, ext, ub), LAMBDA x :
      Wired("value", map(check_op(x.completed), x.val.de), x))

get_rightascension(ext, ub) ==
  With(get_ra_de(sim, ext, ub), LAMBDA x :
      Wired("value", map(check_op(x.completed), x.val.ra), x))

get_atpark == Pure("value", Ok(FALSE))

get_slewing(ext, ub) ==
  With(is_goto_in_progress(sim, ext, ub), LAMBDA x :
      Wired("value", map(check_op(x.completed), x.val), x))

\* astronomy::to_lst is the external helper: ext.lst stands for its result
get_siderealtime(ext, ub) ==
  With(get_location(sim, ext, ub), LAMBDA x :
      Wired("value", map(check_op(x.completed), ext.lst \div 15), x))

get_sitelatitude(ext, ub) ==
  With(get_location(sim, ext, ub), LAMBDA x :
      Wired("value", map(check_op(x.completed), x.val.latitude), x))

put_sitelatitude(angle, ext, ub) ==
  With(get_location(sim, ext, ub), LAMBDA x :
  With(set_location(x.sim, angle, x.val.longitude, ext, ub), LAMBDA y :
      IF x.completed
      THEN Fn("result", "void", check_op(y.completed),
              [Drv EXCEPT !.sim = y.sim], x.wire \o y.wire)
      ELSE Wired("void", Err(invalid_operation), x)))

get_sitelongitude(ext, ub) ==
  With(get_location(sim, ext, ub), LAMBDA x :
      Wired("value", map(check_op(x.completed), x.val.longitude), x))

put_sitelongitude(angle, ext, ub) ==
  With(get_location(sim, ext, ub), LAMBDA x :
  With(set_location(x.sim, x.val.latitude, angle, ext, ub), LAMBDA y :
      IF x.completed
      THEN Fn("result", "void", check_op(y.completed),
              [Drv EXCEPT !.sim = y.sim], x.wire \o y.wire)
      ELSE Wired("void", Err(invalid_operation), x)))

\* the initial value of both targets, which reads as "not set"
TargetUnset == 100 * Milli

\* get_targetdeclination as it would be if 90 were the "not set" mark
get_targetdeclination_mark90 ==
  Pure("value", map(check_set(targetdeclination < 90 * Milli), targetdeclination))

get_targetdeclination ==
  Pure("value", map(check_set(targetdeclination < TargetUnset), targetdeclination))

put_targetdeclination(value) ==
  Fn("result", "void", OkVoid, [Drv EXCEPT !.targetdeclination = value], <<>>)

get_targetrightascension ==
  Pure("value", map(check_set(targetrightascension < TargetUnset), targetrightascension))

put_targetrightascension(value) ==
  Fn("result", "void", OkVoid, [Drv EXCEPT !.targetrightascension = value], <<>>)

\* get_tracking as it would be if only eq_north counted as tracking
get_tracking_north(ext, ub) ==
  With(get_tracking_mode(sim, ext, ub), LAMBDA x :
      Wired("value", map(check_op(x.completed), x.val = eq_north), x))

get_tracking(ext, ub) ==
  With(get_tracking_mode(sim, ext, ub), LAMBDA x :
      Wired("value", map(check_op(x.completed), x.val # off), x))

put_tracking(tracking, ext, ub) ==
  With(set_tracking_mode(sim, IF tracking THEN eq_north ELSE off, ext, ub), LAMBDA x :
      Wired("void", check_op(x.completed), x))

\* telescope::get_utcdate: get_utctm, whose result is not looked at, then
\* format_utc, which keeps whole seconds.  The utcdate_t that a failed
\* get_utctm leaves untouched was never initialized: it holds anything (ub).
get_utcdate(ext, ub) ==
  With(get_utcdate_wire(sim, ext, ub), LAMBDA x :
      Wired("value", Ok(x.val), x))

\* telescope::put_utcdate: utc is what utcdate_t::parse_utc makes of the
\* string: whether it parsed, and the second count it denotes
put_utcdate(utc, ext, ub) ==
  With(set_utcdate(sim, utc.utcdate, ext, ub), LAMBDA x :
      IF utc.parsed THEN Wired("void", check_op(x.completed), x)
      ELSE Pure("void", Err(invalid_value)))

\* abortslew as it would be if it answered without commanding the mount
abortslew_unsent(ext, ub) == Pure("void", OkVoid)

abortslew(ext, ub) ==
  With(cancel_goto(sim, ext, ub), LAMBDA x :
      Wired("void", check_op(x.completed), x))

moveaxis(axis, rate, ext, ub) ==
  With(slew_variable(sim, axis, rate, ext, ub), LAMBDA x :
      Wired("void", check_op(x.completed), x))

\* slewtocoordinatesasync as it would be if it stored the target only after
\* the goto command completed
slewtocoordinatesasync_after(rightascension, declination, ext, ub) ==
  With(goto_ra_de(sim, rightascension, declination, ext, ub), LAMBDA x :
      IF x.completed
      THEN Fn("result", "void", OkVoid,
              [targetdeclination    |-> declination,
               targetrightascension |-> rightascension,
               sim                  |-> x.sim], x.wire)
      ELSE Wired("void", Err(invalid_operation), x))

slewtocoordinatesasync(rightascension, declination, ext, ub) ==
  With(goto_ra_de(sim, rightascension, declination, ext, ub), LAMBDA x :
      Fn("result", "void", check_op(x.completed),
         [targetdeclination    |-> declination,
          targetrightascension |-> rightascension,
          sim                  |-> x.sim], x.wire))

slewtotargetasync(ext, ub) ==
  With(goto_ra_de(sim, targetrightascension, targetdeclination, ext, ub), LAMBDA x :
      Wired("void", check_op(x.completed), x))

synctocoordinates(rightascension, declination, ext, ub) ==
  With(goto_ra_de(sim, rightascension, declination, ext, ub), LAMBDA x :
      Fn("result", "void", check_op(x.completed),
         [targetdeclination    |-> declination,
          targetrightascension |-> rightascension,
          sim                  |-> x.sim], x.wire))

----------------------------------------------------------------------------
(* telescope: the precondition predicates of the gated facade *)

\* telescope::check_parked: asks the driver's get_atpark
check_parked ==
  flat_map(get_atpark.ret,
           IF get_atpark.ret.has_value /\ get_atpark.ret.value
           THEN Err(parked) ELSE OkVoid)

check_axis(axis) == check_value(axis >= 0 /\ axis <= 2)

----------------------------------------------------------------------------
(* The values the model draws arguments and the environment from *)

\* right ascension, hours: inside [0, 24] and a step outside each end
RaVals == {-1, 12 * Milli, 24 * Milli + 1}

\* declination, degrees: inside [-90, 90] and a step outside each end
DecVals == {-90 * Milli - 1, -45 * Milli, 90 * Milli, 90 * Milli + 1}

\* altitude and azimuth, degrees
AltVals == {-90 * Milli - 1, 45 * Milli, 90 * Milli + 1}

AzVals == {-1, 180 * Milli, 360 * Milli + 1}

\* what the coordinate-conversion library answers for the mount's pointing
\* (fault: what the line does to the reply, see line_read)
ExtVals == {[azimuth |-> 180 * Milli, altitude |-> 45 * Milli, lst |-> 30 * Milli,
             fault |-> "none"],
            [azimuth |-> 90 * Milli, altitude |-> -10 * Milli, lst |-> 0,
             fault |-> "none"]}

\* the answer handed to calls that never ask the library
NoExt == [azimuth |-> 0, altitude |-> 0, lst |-> 0, fault |-> "none"]

\* telescopeinfo.flags the device can be constructed with: two words that
\* are each other's complement, so that every capability is present in one
\* and absent in the other
AllFlags == 2 * can_move_axis_2 - 1

SomeFlags == can_find_home + can_pulse_guide + can_set_guide_rates
             + can_set_pier_side + can_set_tracking + can_slew_altaz
             + can_slew_async + can_sync_altaz + can_move_axis_0

FlagVals == {SomeFlags, AllFlags - SomeFlags}

\* simulator_protocol::latitude and longitude have no initializer: what a
\* read before the first 'W' finds
LocInit == {[latitude |-> 0, longitude |-> 0],
            [latitude |-> 10 * Milli, longitude |-> 0]}

----------------------------------------------------------------------------
(* State machine *)

\* json_value (unnamed/part_008): the alternative held, by its index in the
\* variant, and its content as a number; a string is held as the number it
\* spells
index_nullptr == 0
index_bool    == 1
index_long    == 2
index_float   == 3
index_string  == 4

json_value(index, n) == [index |-> index, n |-> n]

json_null == json_value(index_nullptr, 0)

BoolVal(b) == IF b THEN 1 ELSE 0

\* the conversion of a facade result to the return_t<json_value> of a
\* handler: index is the alternative the value goes to; a PUT answers null
\* where the facade returned nothing
Render(r, index) ==
  IF ~r.has_value
  THEN [has_value |-> FALSE, value |-> json_null, error |-> r.error]
  ELSE Ok(CASE index = index_nullptr -> json_null
            [] index = index_bool -> json_value(index_bool, BoolVal(r.value))
            [] OTHER -> json_value(index, r.value))

\* no result at all: what last.ret holds when the driver was not called
NoReturn == [has_value |-> FALSE, value |-> json_null, error |-> no_error]

NoCall == [op |-> "none", args |-> <<>>, res |-> Ok(json_null), calls |-> 0,
           wire |-> <<>>, ret |-> NoReturn]

NeverWritten == [set |-> FALSE, value |-> 0]

Written(value) == [set |-> TRUE, value |-> value]

\* simulator_protocol as constructed at time 0, with loc in its two
\* uninitialized fields
simulator_protocol(loc) ==
  [target_rightascension |-> 0, target_declination |-> 0,
   rightascension |-> 0, declination |-> 0,
   latitude |-> loc.latitude, longitude |-> loc.longitude,
   tracking_mode |-> off, slew_rate |-> <<0, 0>>,
   state |-> "no_op", last_ts |-> 0,
   utcdate |-> 0, utcdate_updated |-> 0]

NoVisit == [fn |-> Fn("plain", "void", "void", no_value, <<>>), ts |-> <<>>,
            done |-> FALSE, res |-> OkVoid, calls |-> 0]

\* no handler thread is at work: the specifications of one telescope alone
NoServer ==
  /\ thread = <<>>
  /\ fd = <<>>
  /\ server_transaction_id = 0
  /\ history = <<>>

Init ==
  /\ is_connected = FALSE
  /\ flags \in FlagVals
  /\ targetdeclination = TargetUnset
  /\ targetrightascension = TargetUnset
  /\ \E loc \in LocInit : sim = simulator_protocol(loc)
  /\ now = 0
  /\ last = NoCall
  /\ written = [targetdeclination |-> NeverWritten,
                targetrightascension |-> NeverWritten]
  /\ vin = NoVisit
  /\ NoServer

\* the writes of the two targets that a completed call made, by operation
WrittenBy(op, args, v) ==
  IF v.calls = 0 THEN written
  ELSE CASE op = "put_targetdeclination" ->
              [written EXCEPT !.targetdeclination = Written(args[1])]
         [] op = "put_targetrightascension" ->
              [written EXCEPT !.targetrightascension = Written(args[1])]
         [] op \in {"slewtocoordinatesasync", "synctocoordinates"} ->
              [targetdeclination |-> Written(args[2]),
               targetrightascension |-> Written(args[1])]
         [] OTHER -> written

\* one request that reaches a facade method: v is what visit made of the
\* call, index the JSON alternative its value goes to.  last.ret keeps what the
\* driver method returned when it was called.
Call(op, args, v, index) ==
  /\ targetdeclination' = v.post.targetdeclination
  /\ targetrightascension' = v.post.targetrightascension
  /\ sim' = v.post.sim
  /\ last' = [op |-> op, args |-> args, res |-> Render(v.res, index),
              calls |-> v.calls, wire |-> v.wire,
              ret |-> IF v.calls = 0 THEN NoReturn ELSE Render(v.ret, index)]
  /\ written' = WrittenBy(op, args, v)
  /\ UNCHANGED <<is_connected, flags, now, vin, srv>>

\* put_connected as it would be if the flag, once set, were never cleared
put_connected_latched ==
  \E connected \in BOOLEAN :
    /\ is_connected' = (is_connected \/ connected)
    /\ last' = [op |-> "put_connected", args |-> <<BoolVal(connected)>>,
                res |-> Ok(json_null), calls |-> 1, wire |-> <<>>,
                ret |-> Ok(json_null)]
    /\ UNCHANGED <<flags, targetdeclination, targetrightascension, sim, now,
                   written, vin, srv>>

\* device::put_connected
put_connected ==
  \E connected \in BOOLEAN :
    /\ is_connected' = IF is_connected /\ connected THEN is_connected
                       ELSE IF ~is_connected /\ ~connected THEN is_connected
                       ELSE connected
    /\ last' = [op |-> "put_connected", args |-> <<BoolVal(connected)>>,
                res |-> Ok(json_null), calls |-> 1, wire |-> <<>>,
                ret |-> Ok(json_null)]
    /\ UNCHANGED <<flags, targetdeclination, targetrightascension, sim, now,
                   written, vin, srv>>

priv_get_altitude ==
  \E ext \in ExtVals, ub \in BOOLEAN :
    Call("get_altitude", <<>>,
         visit(get_altitude(ext, ub),
               <<check_connected>>, Drv), index_float)

priv_get_azimuth ==
  \E ext \in ExtVals, ub \in BOOLEAN :
    Call("get_azimuth", <<>>,
         visit(get_azimuth(ext, ub),
               <<check_connected>>, Drv), index_float)

priv_get_declination ==
  Call("get_declination", <<>>,
       visit(get_declination(NoExt, FALSE),
             <<check_connected>>, Drv), index_float)

priv_get_rightascension ==
  Call("get_rightascension", <<>>,
       visit(get_rightascension(NoExt, FALSE),
             <<check_connected>>, Drv), index_float)

\* celestron_telescope::get_athome returns false
priv_get_athome ==
  Call("get_athome", <<>>,
       visit(Pure("value", Ok(FALSE)),
             <<check_connected>>, Drv), index_bool)

priv_get_atpark ==
  Call("get_atpark", <<>>,
       visit(get_atpark,
             <<check_connected>>, Drv), index_bool)

\* celestron_telescope::get_ispulseguiding returns false
priv_get_ispulseguiding ==
  Call("get_ispulseguiding", <<>>,
       visit(Pure("value", Ok(FALSE)),
             <<check_connected,
              check_flag(get_can(can_pulse_guide))>>, Drv), index_bool)

priv_get_slewing ==
  Call("get_slewing", <<>>,
       visit(get_slewing(NoExt, FALSE),
             <<check_connected>>, Drv), index_bool)

priv_get_siderealtime ==
  \E ext \in ExtVals :
    Call("get_siderealtime", <<>>,
         visit(get_siderealtime(ext, FALSE),
               <<check_connected>>, Drv), index_float)

\* celestron_telescope::get_destinationsideofpier returns pier_unknown
priv_get_destinationsideofpier ==
  \E rightascension \in {12 * Milli}, declination \in {90 * Milli} :
    Call("get_destinationsideofpier", <<rightascension, declination>>,
         visit(Pure("value", Ok(pier_unknown)),
               <<check_connected>>, Drv), index_long)

\* telescope::get_declinationrate returns not_implemented()
priv_get_declinationrate ==
  Call("get_declinationrate", <<>>,
       visit(Pure("value", Err(not_implemented)),
             <<check_connected>>, Drv), index_float)

\* telescope::put_declinationrate returns not_implemented()
priv_put_declinationrate ==
  \E declinationrate \in {Milli} :
    Call("put_declinationrate", <<declinationrate>>,
         visit(Pure("void", Err(not_implemented)),
               <<check_connected,
                check_flag(get_can(can_set_declination_rate))>>, Drv), index_nullptr)

\* telescope::get_rightascensionrate returns not_implemented()
priv_get_rightascensionrate ==
  Call("get_rightascensionrate", <<>>,
       visit(Pure("value", Err(not_implemented)),
             <<check_connected>>, Drv), index_float)

\* telescope::put_rightascensionrate returns not_implemented()
priv_put_rightascensionrate ==
  \E rightascensionrate \in {Milli} :
    Call("put_rightascensionrate", <<rightascensionrate>>,
         visit(Pure("void", Err(not_implemented)),
               <<check_connected,
                check_flag(get_can(can_set_right_ascension_rate))>>, Drv), index_nullptr)

\* telescope::get_doesrefraction returns not_implemented()
priv_get_doesrefraction ==
  Call("get_doesrefraction", <<>>,
       visit(Pure("value", Err(not_implemented)),
             <<check_connected>>, Drv), index_bool)

\* telescope::put_doesrefraction returns not_implemented()
priv_put_doesrefraction ==
  \E doesrefraction \in BOOLEAN :
    Call("put_doesrefraction", <<BoolVal(doesrefraction)>>,
         visit(Pure("void", Err(not_implemented)),
               <<check_connected>>, Drv), index_nullptr)

\* telescope::get_guideratedeclination returns not_implemented()
priv_get_guideratedeclination ==
  Call("get_guideratedeclination", <<>>,
       visit(Pure("value", Err(not_implemented)),
             <<check_connected>>, Drv), index_float)

\* telescope::put_guideratedeclination returns not_implemented()
priv_put_guideratedeclination ==
  \E guideratedeclination \in {Milli} :
    Call("put_guideratedeclination", <<guideratedeclination>>,
         visit(Pure("void", Err(not_implemented)),
               <<check_connected,
                check_flag(get_can(can_set_guide_rates))>>, Drv), index_nullptr)

\* telescope::get_guideraterightascension returns not_implemented()
priv_get_guideraterightascension ==
  Call("get_guideraterightascension", <<>>,
       visit(Pure("value", Err(not_implemented)),
             <<check_connected>>, Drv), index_float)

\* telescope::put_guideraterightascension returns not_implemented()
priv_put_guideraterightascension ==
  \E guideraterightascension \in {Milli} :
    Call("put_guideraterightascension", <<guideraterightascension>>,
         visit(Pure("void", Err(not_implemented)),
               <<check_connected,
                check_flag(get_can(can_set_guide_rates))>>, Drv), index_nullptr)

\* telescope::get_sideofpier returns not_implemented()
priv_get_sideofpier ==
  Call("get_sideofpier", <<>>,
       visit(Pure("value", Err(not_implemented)),
             <<check_connected>>, Drv), index_long)

\* telescope::put_sideofpier returns not_implemented()
priv_put_sideofpier ==
  \E sideofpier \in {0, 1} :
    Call("put_sideofpier", <<sideofpier>>,
         visit(Pure("void", Err(not_implemented)),
               <<check_connected>>, Drv), index_nullptr)

\* telescope::get_siteelevation returns not_implemented()
priv_get_siteelevation ==
  Call("get_siteelevation", <<>>,
       visit(Pure("value", Err(not_implemented)),
             <<check_connected>>, Drv), index_float)

\* priv_put_siteelevation as it would be without its range gate
priv_put_siteelevation_ungated ==
  \E elevation \in {-300 * Milli - 1, 100 * Milli, 12000 * Milli} :
    Call("put_siteelevation", <<elevation>>,
         visit(Pure("void", Err(not_implemented)),
               <<check_connected>>, Drv), index_nullptr)

\* telescope::put_siteelevation returns not_implemented()
priv_put_siteelevation ==
  \E elevation \in {-300 * Milli - 1, 100 * Milli, 12000 * Milli} :
    Call("put_siteelevation", <<elevation>>,
         visit(Pure("void", Err(not_implemented)),
               <<check_connected,
                check_value(elevation >= -300 * Milli /\ elevation <= 10000 * Milli)>>, Drv), index_nullptr)

priv_get_sitelatitude ==
  Call("get_sitelatitude", <<>>,
       visit(get_sitelatitude(NoExt, FALSE),
             <<check_connected>>, Drv), index_float)

priv_put_sitelatitude ==
  \E latitude \in {-90 * Milli - 1, 10 * Milli, 90 * Milli + 1} :
    Call("put_sitelatitude", <<latitude>>,
         visit(put_sitelatitude(latitude, NoExt, FALSE),
               <<check_connected,
                check_value(latitude >= -90 * Milli /\ latitude <= 90 * Milli)>>, Drv), index_nullptr)

priv_get_sitelongitude ==
  Call("get_sitelongitude", <<>>,
       visit(get_sitelongitude(NoExt, FALSE),
             <<check_connected>>, Drv), index_float)

priv_put_sitelongitude ==
  \E longitude \in {-180 * Milli - 1, 0, 180 * Milli + 1} :
    Call("put_sitelongitude", <<longitude>>,
         visit(put_sitelongitude(longitude, NoExt, FALSE),
               <<check_connected,
                check_value(longitude >= -180 * Milli /\ longitude <= 180 * Milli)>>, Drv), index_nullptr)

\* telescope::get_slewsettletime returns not_implemented()
priv_get_slewsettletime ==
  Call("get_slewsettletime", <<>>,
       visit(Pure("value", Err(not_implemented)),
             <<check_connected>>, Drv), index_long)

\* telescope::put_slewsettletime returns not_implemented()
priv_put_slewsettletime ==
  \E slewsettletime \in {-1, 5} :
    Call("put_slewsettletime", <<slewsettletime>>,
         visit(Pure("void", Err(not_implemented)),
               <<check_connected,
                check_value(slewsettletime >= 0)>>, Drv), index_nullptr)

priv_get_targetdeclination ==
  Call("get_targetdeclination", <<>>,
       visit(get_targetdeclination,
             <<check_connected>>, Drv), index_float)

priv_put_targetdeclination ==
  \E value \in DecVals :
    Call("put_targetdeclination", <<value>>,
         visit(put_targetdeclination(value),
               <<check_connected,
                check_value(value >= -90 * Milli /\ value <= 90 * Milli)>>, Drv), index_nullptr)

priv_get_targetrightascension ==
  Call("get_targetrightascension", <<>>,
       visit(get_targetrightascension,
             <<check_connected>>, Drv), index_float)

priv_put_targetrightascension ==
  \E value \in RaVals :
    Call("put_targetrightascension", <<value>>,
         visit(put_targetrightascension(value),
               <<check_connected,
                check_value(value >= 0 /\ value <= 24 * Milli)>>, Drv), index_nullptr)

priv_get_tracking ==
  Call("get_tracking", <<>>,
       visit(get_tracking(NoExt, FALSE),
             <<check_connected>>, Drv), index_bool)

priv_put_tracking ==
  \E tracking \in {FALSE} :
    Call("put_tracking", <<BoolVal(tracking)>>,
         visit(put_tracking(tracking, NoExt, FALSE),
               <<check_connected>>, Drv), index_nullptr)

\* celestron_telescope::get_trackingrate returns sidereal
priv_get_trackingrate ==
  Call("get_trackingrate", <<>>,
       visit(Pure("value", Ok(sidereal)),
             <<check_connected>>, Drv), index_long)

\* celestron_telescope::put_trackingrate returns {}
priv_put_trackingrate ==
  \E rate \in {-1, 3, 4} :
    Call("put_trackingrate", <<rate>>,
         visit(Pure("void", OkVoid),
               <<check_connected,
                check_value(rate >= 0 /\ rate <= 3)>>, Drv), index_nullptr)

priv_get_utcdate ==
  Call("get_utcdate", <<>>,
       visit(get_utcdate(NoExt, FALSE),
             <<check_connected>>, Drv), index_string)

priv_put_utcdate ==
  \E utc \in {[parsed |-> TRUE, utcdate |-> 0], [parsed |-> FALSE, utcdate |-> 0]} :
    Call("put_utcdate", <<BoolVal(utc.parsed), utc.utcdate>>,
         visit(put_utcdate(utc, NoExt, FALSE),
               <<check_connected>>, Drv), index_nullptr)

priv_abortslew ==
  Call("abortslew", <<>>,
       visit(abortslew(NoExt, FALSE),
             <<check_connected>>, Drv), index_nullptr)

\* celestron_telescope::findhome returns {}
priv_findhome ==
  Call("findhome", <<>>,
       visit(Pure("void", OkVoid),
             <<check_connected,
              check_flag(get_can(can_find_home))>>, Drv), index_nullptr)

\* priv_moveaxis as it would be if the capability were tested before the axis
priv_moveaxis_flag_first ==
  \E axis \in {-1, 0, 2, 3}, rate \in {-9 * Milli, 2 * Milli, 9 * Milli}, ub \in BOOLEAN :
    Call("moveaxis", <<axis, rate>>,
         visit(moveaxis(axis, rate, NoExt, ub),
               <<check_connected,
                check_flag(get_canmoveaxis(axis, ub)),
                check_axis(axis),
                check_value(rate > -9 * Milli /\ rate < 9 * Milli)>>, Drv), index_nullptr)

priv_moveaxis ==
  \E axis \in {-1, 0, 2, 3}, rate \in {-9 * Milli, 2 * Milli, 9 * Milli}, ub \in BOOLEAN :
    Call("moveaxis", <<axis, rate>>,
         visit(moveaxis(axis, rate, NoExt, ub),
               <<check_connected,
                check_axis(axis),
                check_flag(get_canmoveaxis(axis, ub)),
                check_value(rate > -9 * Milli /\ rate < 9 * Milli)>>, Drv), index_nullptr)

\* celestron_telescope::park returns {}
priv_park ==
  Call("park", <<>>,
       visit(Pure("void", OkVoid),
             <<check_connected,
              check_flag(get_can(can_park))>>, Drv), index_nullptr)

\* celestron_telescope::pulseguide returns {}
priv_pulseguide ==
  \E direction \in {0, 3}, duration \in {1000} :
    Call("pulseguide", <<direction, duration>>,
         visit(Pure("void", OkVoid),
               <<check_connected,
                check_flag(get_can(can_pulse_guide))>>, Drv), index_nullptr)

\* celestron_telescope::setpark returns {}
priv_setpark ==
  Call("setpark", <<>>,
       visit(Pure("void", OkVoid),
             <<check_connected,
              check_flag(get_can(can_set_park))>>, Drv), index_nullptr)

\* celestron_telescope::slewtoaltaz returns {}
priv_slewtoaltaz ==
  \E altitude \in AltVals, azimuth \in AzVals :
    Call("slewtoaltaz", <<altitude, azimuth>>,
         visit(Pure("void", OkVoid),
               <<check_connected,
                check_flag(get_can(can_slew_altaz))>>, Drv), index_nullptr)

\* celestron_telescope::slewtoaltazasync returns {}
priv_slewtoaltazasync ==
  \E altitude \in AltVals, azimuth \in AzVals :
    Call("slewtoaltazasync", <<altitude, azimuth>>,
         visit(Pure("void", OkVoid),
               <<check_connected,
                check_flag(get_can(can_slew_altaz_async)),
                check_value(azimuth >= 0 /\ azimuth <= 360 * Milli),
                check_value(altitude >= -90 * Milli /\ altitude <= 90 * Milli)>>, Drv), index_nullptr)

\* celestron_telescope::slewtocoordinates returns {}
priv_slewtocoordinates ==
  \E rightascension \in RaVals, declination \in DecVals :
    Call("slewtocoordinates", <<rightascension, declination>>,
         visit(Pure("void", OkVoid),
               <<check_connected,
                check_flag(get_can(can_slew))>>, Drv), index_nullptr)

priv_slewtocoordinatesasync ==
  \E rightascension \in RaVals, declination \in DecVals :
    Call("slewtocoordinatesasync", <<rightascension, declination>>,
         visit(slewtocoordinatesasync(rightascension, declination, NoExt, FALSE),
               <<check_connected,
                check_flag(get_can(can_slew_async)),
                check_value(declination >= -90 * Milli /\ declination <= 90 * Milli),
                check_value(rightascension >= 0 /\ rightascension <= 24 * Milli)>>, Drv), index_nullptr)

\* celestron_telescope::slewtotarget returns {}
priv_slewtotarget ==
  Call("slewtotarget", <<>>,
       visit(Pure("void", OkVoid),
             <<check_connected,
              check_flag(get_can(can_slew))>>, Drv), index_nullptr)

priv_slewtotargetasync ==
  Call("slewtotargetasync", <<>>,
       visit(slewtotargetasync(NoExt, FALSE),
             <<check_connected,
              check_flag(get_can(can_slew_async))>>, Drv), index_nullptr)

\* celestron_telescope::synctoaltaz returns {}
priv_synctoaltaz ==
  \E altitude \in AltVals, azimuth \in AzVals :
    Call("synctoaltaz", <<altitude, azimuth>>,
         visit(Pure("void", OkVoid),
               <<check_connected,
                check_flag(get_can(can_sync_altaz)),
                check_value(azimuth >= 0 /\ azimuth <= 360 * Milli),
                check_value(altitude >= -90 * Milli /\ altitude <= 90 * Milli)>>, Drv), index_nullptr)

priv_synctocoordinates ==
  \E rightascension \in RaVals, declination \in DecVals :
    Call("synctocoordinates", <<rightascension, declination>>,
         visit(synctocoordinates(rightascension, declination, NoExt, FALSE),
               <<check_connected,
                check_flag(get_can(can_sync)),
                check_value(declination >= -90 * Milli /\ declination <= 90 * Milli),
                check_value(rightascension >= 0 /\ rightascension <= 24 * Milli)>>, Drv), index_nullptr)

\* celestron_telescope::synctotarget returns {}
priv_synctotarget ==
  Call("synctotarget", <<>>,
       visit(Pure("void", OkVoid),
             <<check_connected,
              check_parked,
              check_flag(get_can(can_sync))>>, Drv), index_nullptr)

\* celestron_telescope::unpark returns {}
priv_unpark ==
  Call("unpark", <<>>,
       visit(Pure("void", OkVoid),
             <<check_connected,
              check_flag(get_can(can_unpark))>>, Drv), index_nullptr)

Next ==
  \/ put_connected
  \/ priv_get_altitude
  \/ priv_get_azimuth
  \/ priv_get_declination
  \/ priv_get_rightascension
  \/ priv_get_athome
  \/ priv_get_atpark
  \/ priv_get_ispulseguiding
  \/ priv_get_slewing
  \/ priv_get_siderealtime
  \/ priv_get_destinationsideofpier
  \/ priv_get_declinationrate
  \/ priv_put_declinationrate
  \/ priv_get_rightascensionrate
  \/ priv_put_rightascensionrate
  \/ priv_get_doesrefraction
  \/ priv_put_doesrefraction
  \/ priv_get_guideratedeclination
  \/ priv_put_guideratedeclination
  \/ priv_get_guideraterightascension
  \/ priv_put_guideraterightascension
  \/ priv_get_sideofpier
  \/ priv_put_sideofpier
  \/ priv_get_siteelevation
  \/ priv_put_siteelevation
  \/ priv_get_sitelatitude
  \/ priv_put_sitelatitude
  \/ priv_get_sitelongitude
  \/ priv_put_sitelongitude
  \/ priv_get_slewsettletime
  \/ priv_put_slewsettletime
  \/ priv_get_targetdeclination
  \/ priv_put_targetdeclination
  \/ priv_get_targetrightascension
  \/ priv_put_targetrightascension
  \/ priv_get_tracking
  \/ priv_put_tracking
  \/ priv_get_trackingrate
  \/ priv_put_trackingrate
  \/ priv_get_utcdate
  \/ priv_put_utcdate
  \/ priv_abortslew
  \/ priv_findhome
  \/ priv_moveaxis
  \/ priv_park
  \/ priv_pulseguide
  \/ priv_setpark
  \/ priv_slewtoaltaz
  \/ priv_slewtoaltazasync
  \/ priv_slewtocoordinates
  \/ priv_slewtocoordinatesasync
  \/ priv_slewtotarget
  \/ priv_slewtotargetasync
  \/ priv_synctoaltaz
  \/ priv_synctocoordinates
  \/ priv_synctotarget
  \/ priv_unpark

Spec == Init /\ [][Next]_vars

----------------------------------------------------------------------------
(* visit on its own: every combination of up to MaxArgs results with every  *)
(* kind of callable                                                         *)

\* the results visit is applied to
ResultVals == {OkVoid, Err(not_connected), Err(not_implemented), Err(invalid_value)}

\* the callables: returning nothing, a plain value, or a result of either
\* payload type that holds a value or an error
FnVals ==
  {Fn("plain", "void", "void", no_value, <<>>),
   Fn("plain", "value", "v", no_value, <<>>)}
  \cup {Fn("result", "void", r, no_value, <<>>) : r \in {OkVoid, Err(parked)}}
  \cup {Fn("result", "value", r, no_value, <<>>) : r \in {Ok("v"), Err(value_not_set)}}

InitVisit ==
  /\ is_connected = FALSE
  /\ flags = none
  /\ targetdeclination = TargetUnset
  /\ targetrightascension = TargetUnset
  /\ sim = simulator_protocol([latitude |-> 0, longitude |-> 0])
  /\ now = 0
  /\ last = NoCall
  /\ written = [targetdeclination |-> NeverWritten,
                targetrightascension |-> NeverWritten]
  /\ \E n \in 1..MaxArgs : \E ts \in [1..n -> ResultVals] : \E fn \in FnVals :
       vin = [fn |-> fn, ts |-> ts, done |-> FALSE, res |-> OkVoid, calls |-> 0]
  /\ NoServer

\* one application of visit to the drawn callable and results
ApplyVisit ==
  /\ ~vin.done
  /\ LET v == visit(vin.fn, vin.ts, no_value)
     IN  vin' = [vin EXCEPT !.done = TRUE, !.res = v.res, !.calls = v.calls]
  /\ UNCHANGED <<is_connected, flags, targetdeclination, targetrightascension,
                 sim, now, last, written, srv>>

NextVisit == ApplyVisit

SpecVisit == InitVisit /\ [][NextVisit]_vars

-----------------------------------------------------------------------------
(* result::map and result::flat_map applied to a callable.  What map and     *)
(* flat_map return holds, as its value, either what a callable returned as   *)
(* a plain value or a whole result: the payload tells the two apart.         *)

NoPayload == [nested |-> FALSE, has_value |-> FALSE, value |-> no_value,
              error |-> no_error]

\* a payload of type U, U not a result
Plain(v) == [nested |-> FALSE, has_value |-> TRUE, value |-> v,
             error |-> no_error]

\* a payload of type result<V, Err>
Nested(r) == [nested |-> TRUE, has_value |-> r.has_value, value |-> r.value,
              error |-> r.error]

Returned(has_value, payload, error, calls) ==
  [has_value |-> has_value, value |-> payload, error |-> error,
   calls |-> calls]

\* result::map(fn), for result<Tp, Err> and result<void, Err> alike.  On a
\* value fn is invoked and Ret{fn(value)} is built, Ret = result<U, Err>.
\* When U is result<V, Err> with V not void, two constructors of Ret take
\* the result<V, Err> that fn returned: result(_Up&&), which would hold it
\* as the value, and result(result<_Up, _Gr>&&), which is the more
\* specialized template and is the one chosen; it copies the has_value of
\* its argument and builds the value from V or the error from Err.  When V
\* is void, result<void, Err> is not constructible from void and only
\* result(_Up&&) remains.
map_fn(r, fn) ==
  IF ~r.has_value THEN Returned(FALSE, NoPayload, r.error, 0)
  ELSE IF fn.kind = "plain" THEN Returned(TRUE, Plain(fn.ret), no_error, 1)
  ELSE IF fn.tp = "void" THEN Returned(TRUE, Nested(fn.ret), no_error, 1)
  ELSE IF fn.ret.has_value
  THEN Returned(TRUE, Nested(Ok(fn.ret.value)), no_error, 1)
  ELSE Returned(FALSE, NoPayload, fn.ret.error, 1)

\* result::flat_map(fn): fn returns a result (static_assert), which is
\* returned as it is
flat_map_fn(r, fn) ==
  IF ~r.has_value THEN Returned(FALSE, NoPayload, r.error, 0)
  ELSE IF fn.ret.has_value
  THEN Returned(TRUE, Plain(fn.ret.value), no_error, 1)
  ELSE Returned(FALSE, NoPayload, fn.ret.error, 1)

\* the results map and flat_map are applied to: result<Tp, Err> holding a
\* value, result<void, Err> holding none, and errors
ReceiverVals == {Ok("x"), Ok("y"), OkVoid, Err(not_connected),
                 Err(not_implemented), Err(invalid_value)}

InitResult ==
  /\ is_connected = FALSE
  /\ flags = none
  /\ targetdeclination = TargetUnset
  /\ targetrightascension = TargetUnset
  /\ sim = simulator_protocol([latitude |-> 0, longitude |-> 0])
  /\ now = 0
  /\ last = NoCall
  /\ written = [targetdeclination |-> NeverWritten,
                targetrightascension |-> NeverWritten]
  /\ \E r \in ReceiverVals, fn \in FnVals, op \in {"map", "flat_map"} :
       /\ op = "flat_map" => fn.kind = "result"
       /\ vin = [op |-> op, fn |-> fn, ts |-> <<r>>, done |-> FALSE,
                 res |-> Returned(FALSE, NoPayload, no_error, 0)]
  /\ NoServer

\* one application of map or flat_map to the drawn result and callable
ApplyResult ==
  /\ ~vin.done
  /\ vin' = [vin EXCEPT !.done = TRUE,
                        !.res = IF vin.op = "map"
                                THEN map_fn(vin.ts[1], vin.fn)
                                ELSE flat_map_fn(vin.ts[1], vin.fn)]
  /\ UNCHANGED <<is_connected, flags, targetdeclination, targetrightascension,
                 sim, now, last, written, srv>>

NextResult == ApplyResult

SpecResult == InitResult /\ [][NextResult]_vars

----------------------------------------------------------------------------
(* serial_protocol over one serial line: the handler threads of the HTTP    *)
(* server share the telescope and, through it, the serial object.  Nothing  *)
(* in the sources holds a lock around send_command or around the driver.    *)

\* handler threads of the HTTP server working at the same time
NThreads == 2

\* exchanges after which no new one is started
MaxExchanges == 3

Threads == 1..NThreads

\* the read loop's locals outside of a call
NotCalling == [pc |-> "idle", out |-> <<>>, out_size |-> 0]

\* the reply of the mount to the request that thread t wrote: the two bytes
\* of the answer to 'L', each marked with the request it answers
ReplyTo(t) == <<[to |-> t, byte |-> 0], [to |-> t, byte |-> Hash]>>

InitSerial ==
  /\ is_connected = TRUE
  /\ flags = none
  /\ targetdeclination = TargetUnset
  /\ targetrightascension = TargetUnset
  /\ sim = simulator_protocol([latitude |-> 0, longitude |-> 0])
  /\ now = 0
  /\ last = NoCall
  /\ written = [targetdeclination |-> NeverWritten,
                targetrightascension |-> NeverWritten]
  /\ vin = NoVisit
  /\ thread = [t \in Threads |-> NotCalling]
  /\ fd = [is_open |-> FALSE, tx |-> <<>>, rx |-> <<>>]
  /\ server_transaction_id = 0
  /\ history = <<>>

\* serial_protocol::send_command up to its call of serial.read: the port is
\* opened when it is not open yet, then the request is written in one
\* ::write; the mount now holds the request of thread t
serial_write(t) ==
  /\ thread[t].pc = "idle"
  /\ Len(history) + Cardinality({u \in Threads : thread[u].pc = "read"})
       < MaxExchanges
  /\ thread' = [thread EXCEPT ![t] = [pc |-> "read", out |-> <<>>, out_size |-> 2]]
  /\ fd' = [fd EXCEPT !.is_open = TRUE, !.tx = Append(@, t)]
  /\ UNCHANGED <<tel, server_transaction_id, history>>

\* serial::read, one turn of its loop: ::read hands over nbytes of what the
\* line holds, whoever they answer; with nothing to hand over, or no room
\* left, it returns 0 and send_command returns the count read so far
serial_read(t) ==
  /\ thread[t].pc = "read"
  /\ \E nbytes \in 0..Min(Len(fd.rx), thread[t].out_size) :
       /\ nbytes = 0 => (fd.rx = <<>> \/ thread[t].out_size = 0)
       /\ IF nbytes > 0
          THEN /\ thread' = [thread EXCEPT
                    ![t].out = @ \o SubSeq(fd.rx, 1, nbytes),
                    ![t].out_size = @ - nbytes]
               /\ fd' = [fd EXCEPT !.rx = SubSeq(@, nbytes + 1, Len(@))]
               /\ UNCHANGED history
          ELSE /\ thread' = [thread EXCEPT ![t] = NotCalling]
               /\ history' = Append(history, [of |-> t, out |-> thread[t].out])
               /\ UNCHANGED fd
  /\ UNCHANGED <<tel, server_transaction_id>>

\* the mount at the other end of the line answers the requests in the order
\* it received them
mount_reply ==
  /\ fd.tx # <<>>
  /\ fd' = [fd EXCEPT !.tx = Tail(@), !.rx = @ \o ReplyTo(Head(fd.tx))]
  /\ UNCHANGED <<tel, thread, server_transaction_id, history>>

NextSerial ==
  \/ \E t \in Threads : serial_write(t)
  \/ \E t \in Threads : serial_read(t)
  \/ mount_reply

SpecSerial == InitSerial /\ [][NextSerial]_vars

----------------------------------------------------------------------------
(* The driver on a line that loses or garbles replies: every method of      *)
(* celestron_telescope that makes an exchange, called with each fault.      *)

\* the faults of one exchange
FaultVals == {"none", "short", "noise", "error"}

LineExt == {[NoExt EXCEPT !.fault = f] : f \in FaultVals}

\* the methods of celestron_telescope that make an exchange
LineOps == {"get_altitude", "get_azimuth", "get_declination",
            "get_rightascension", "get_slewing", "get_siderealtime",
            "get_sitelatitude", "put_sitelatitude", "get_sitelongitude",
            "put_sitelongitude", "get_tracking", "put_tracking",
            "get_utcdate", "put_utcdate", "abortslew", "moveaxis",
            "slewtocoordinatesasync", "slewtotargetasync", "synctocoordinates"}

\* the callable of the method op, with arguments a where it takes some
DriverOp(op, a, ext, ub) ==
  CASE op = "get_altitude" -> get_altitude(ext, ub)
    [] op = "get_azimuth" -> get_azimuth(ext, ub)
    [] op = "get_declination" -> get_declination(ext, ub)
    [] op = "get_rightascension" -> get_rightascension(ext, ub)
    [] op = "get_slewing" -> get_slewing(ext, ub)
    [] op = "get_siderealtime" -> get_siderealtime(ext, ub)
    [] op = "get_sitelatitude" -> get_sitelatitude(ext, ub)
    [] op = "put_sitelatitude" -> put_sitelatitude(a[2], ext, ub)
    [] op = "get_sitelongitude" -> get_sitelongitude(ext, ub)
    [] op = "put_sitelongitude" -> put_sitelongitude(a[2], ext, ub)
    [] op = "get_tracking" -> get_tracking(ext, ub)
    [] op = "put_tracking" -> put_tracking(a[1] > 0, ext, ub)
    [] op = "get_utcdate" -> get_utcdate(ext, ub)
    [] op = "put_utcdate" ->
         put_utcdate([parsed |-> TRUE, utcdate |-> a[1]], ext, ub)
    [] op = "abortslew" -> abortslew(ext, ub)
    [] op = "moveaxis" -> moveaxis(a[1] % 2, a[2] \div 10, ext, ub)
    [] op = "slewtocoordinatesasync" -> slewtocoordinatesasync(a[1], a[2], ext, ub)
    [] op = "slewtotargetasync" -> slewtotargetasync(ext, ub)
    [] op = "synctocoordinates" -> synctocoordinates(a[1], a[2], ext, ub)

\* the JSON alternative of what op returns
IndexOf(op) ==
  CASE op \in {"get_slewing", "get_tracking"} -> index_bool
    [] op = "get_utcdate" -> index_string
    [] op \in {"get_altitude", "get_azimuth", "get_declination",
               "get_rightascension", "get_siderealtime", "get_sitelatitude",
               "get_sitelongitude"} -> index_float
    [] OTHER -> index_nullptr

InitLine ==
  /\ is_connected = TRUE
  /\ flags = AllFlags
  /\ targetdeclination = TargetUnset
  /\ targetrightascension = TargetUnset
  /\ sim = simulator_protocol([latitude |-> 0, longitude |-> 0])
  /\ now = 0
  /\ last = NoCall
  /\ written = [targetdeclination |-> NeverWritten,
                targetrightascension |-> NeverWritten]
  /\ vin = NoVisit
  /\ thread = <<>>
  /\ fd = "none"
  /\ server_transaction_id = 0
  /\ history = <<>>

\* one call of a driver method; fd keeps the fault its exchanges met
driver_exchange ==
  \E op \in LineOps, ext \in LineExt, ub \in BOOLEAN :
  \E a \in {<<6 * Milli, -30 * Milli>>} :
    With(DriverOp(op, a, ext, ub), LAMBDA fn :
      /\ targetdeclination' = fn.post.targetdeclination
      /\ targetrightascension' = fn.post.targetrightascension
      /\ sim' = fn.post.sim
      /\ last' = [op |-> op, args |-> a, res |-> Render(fn.ret, IndexOf(op)),
                  calls |-> 1, wire |-> fn.wire,
                  ret |-> Render(fn.ret, IndexOf(op))]
      /\ fd' = ext.fault
      /\ UNCHANGED <<is_connected, flags, now, written, vin, thread,
                     server_transaction_id, history>>)

NextLine == driver_exchange

SpecLine == InitLine /\ [][NextLine]_vars

-----------------------------------------------------------------------------
(* The system calls of the serial line: each method of celestron_telescope   *)
(* that makes an exchange, called while ::open, ::write or ::read fails.     *)

\* the system call that fails, if any
SyscallVals == {"none", "open", "write", "read"}

SyscallExt == {[NoExt EXCEPT !.fault = f] : f \in SyscallVals}

\* one call of a driver method; fd keeps the system call that failed and
\* what serial_protocol::send_command returned for the first command
driver_syscall ==
  \E op \in LineOps, ext \in SyscallExt, ub \in BOOLEAN :
  \E a \in {<<6 * Milli, -30 * Milli>>} :
    With(DriverOp(op, a, ext, ub), LAMBDA fn :
      /\ targetdeclination' = fn.post.targetdeclination
      /\ targetrightascension' = fn.post.targetrightascension
      /\ sim' = fn.post.sim
      /\ last' = [op |-> op, args |-> a, res |-> Render(fn.ret, IndexOf(op)),
                  calls |-> 1, wire |-> fn.wire,
                  ret |-> Render(fn.ret, IndexOf(op))]
      /\ fd' = [fault |-> ext.fault,
                n |-> send_command(sim, fn.wire[1], ext, ub).n]
      /\ UNCHANGED <<is_connected, flags, now, written, vin, thread,
                     server_transaction_id, history>>)

\* the connected mount of InitLine, before the first system call
InitSyscall ==
  /\ is_connected = TRUE
  /\ flags = AllFlags
  /\ targetdeclination = TargetUnset
  /\ targetrightascension = TargetUnset
  /\ sim = simulator_protocol([latitude |-> 0, longitude |-> 0])
  /\ now = 0
  /\ last = NoCall
  /\ written = [targetdeclination |-> NeverWritten,
                targetrightascension |-> NeverWritten]
  /\ vin = NoVisit
  /\ thread = <<>>
  /\ fd = [fault |-> "none", n |-> 0]
  /\ server_transaction_id = 0
  /\ history = <<>>

NextSyscall == driver_syscall

SpecSyscall == InitSyscall /\ [][NextSyscall]_vars

----------------------------------------------------------------------------
(* A slew on the simulator, watched by polling: the client commands the     *)
(* slew, then asks for slewing, rightascension and declination while the    *)
(* wall clock runs.                                                         *)

\* the wall clock stops here
MaxNow == 60

\* the longest time between two exchanges, in seconds
MaxDt == 1

\* the targets the client commands: the scenario's 6 h, 45 degrees, and one
\* south of the equator
SlewTargets == {<<6 * Milli, 45 * Milli>>, <<1 * Milli, -3 * Milli>>}

\* telescope::priv_slewtocoordinatesasync, commanded before the clock runs
slew_from_rest ==
  /\ now = 0
  /\ \E target \in SlewTargets :
       Call("slewtocoordinatesasync", target,
            visit(slewtocoordinatesasync(target[1], target[2], NoExt, FALSE),
                  <<check_connected,
                   check_flag(get_can(can_slew_async)),
                   check_value(target[2] >= -90 * Milli /\ target[2] <= 90 * Milli),
                   check_value(target[1] >= 0 /\ target[1] <= 24 * Milli)>>, Drv),
            index_nullptr)

\* utcdate_t::now() moves on by a second
Tick ==
  /\ now < MaxNow
  /\ now - sim.last_ts < MaxDt
  /\ now' = now + 1
  /\ UNCHANGED <<is_connected, flags, targetdeclination, targetrightascension,
                 sim, last, written, vin, srv>>

NextSlew ==
  \/ slew_from_rest
  \/ priv_get_slewing
  \/ priv_get_rightascension
  \/ priv_get_declination
  \/ Tick

\* the slew starts from the connected mount of InitLine
SpecSlew == InitLine /\ [][NextSlew]_vars

\* the client keeps polling slewing and the clock keeps running
SpecSlewFair ==
  SpecSlew /\ WF_vars(priv_get_slewing) /\ WF_vars(Tick)

-----------------------------------------------------------------------------
(* The axes moved at a rate: moveaxis for each axis of the mount and for     *)
(* rates of both signs whose magnitude fits the two bytes of the command.    *)

AxisVals == {0, 1}

\* degrees per second, in thousandths
RateVals == {-4 * Milli, -2 * Milli, -1 * Milli, -250,
             250, 1 * Milli, 2 * Milli, 4 * Milli}

\* telescope::priv_moveaxis on a connected mount
move_axis ==
  \E axis \in AxisVals, rate \in RateVals, ub \in BOOLEAN :
    Call("moveaxis", <<axis, rate>>,
         visit(moveaxis(axis, rate, NoExt, ub),
               <<check_connected,
                check_axis(axis),
                check_flag(get_canmoveaxis(axis, ub)),
                check_value(rate > -9 * Milli /\ rate < 9 * Milli)>>, Drv), index_nullptr)

NextAxis == move_axis

SpecAxis == InitLine /\ [][NextAxis]_vars

-----------------------------------------------------------------------------
(* The axes moved at every kind of rate that the gate of moveaxis admits:    *)
(* those of SpecAxis, and rates whose magnitude, in quarter-arcseconds per   *)
(* second, is above 65535.                                                   *)

\* degrees per second, in thousandths: above 65535 / (3600 * 4) and below 9
FastRates == {-8 * Milli, -5 * Milli, 5 * Milli, 8 * Milli}

\* telescope::priv_moveaxis on a connected mount, at a fast rate
move_axis_fast ==
  \E axis \in AxisVals, rate \in FastRates, ub \in BOOLEAN :
    Call("moveaxis", <<axis, rate>>,
         visit(moveaxis(axis, rate, NoExt, ub),
               <<check_connected,
                check_axis(axis),
                check_flag(get_canmoveaxis(axis, ub)),
                check_value(rate > -9 * Milli /\ rate < 9 * Milli)>>, Drv), index_nullptr)

NextRate ==
  \/ move_axis
  \/ move_axis_fast

SpecRate == InitLine /\ [][NextRate]_vars

-----------------------------------------------------------------------------
(* A declination sent to the mount and read back: the mount, at rest on the  *)
(* equator, is slewed in declination alone to a target between the poles,    *)
(* and its declination is asked for while it moves and after it arrived.     *)

\* degrees, in thousandths: both poles, the equator and both hemispheres
DeclVals == {-90 * Milli, -60 * Milli, -30 * Milli, -3 * Milli, 0,
             3 * Milli, 30 * Milli, 60 * Milli, 90 * Milli}

\* telescope::priv_slewtocoordinatesasync at the right ascension of rest
slew_declination ==
  /\ now = 0
  /\ \E rightascension \in {sim.rightascension}, declination \in DeclVals :
       Call("slewtocoordinatesasync", <<rightascension, declination>>,
            visit(slewtocoordinatesasync(rightascension, declination, NoExt, FALSE),
                  <<check_connected,
                   check_flag(get_can(can_slew_async)),
                   check_value(declination >= -90 * Milli /\ declination <= 90 * Milli),
                   check_value(rightascension >= 0 /\ rightascension <= 24 * Milli)>>,
                  Drv), index_nullptr)

NextDeclination ==
  \/ slew_declination
  \/ priv_get_slewing
  \/ priv_get_declination
  \/ Tick

SpecDeclination == InitLine /\ [][NextDeclination]_vars

-----------------------------------------------------------------------------
(* The capability getters, asked between the operations that the            *)
(* capabilities gate: GET canfindhome, canpark, canslewasync, canunpark.    *)

CapGetters == {"get_canfindhome", "get_canpark", "get_canslewasync",
           "get_canunpark"}

\* the telescope_flags_t bit that the getter reads
CapOf(op) ==
  CASE op = "get_canfindhome" -> can_find_home
    [] op = "get_canpark" -> can_park
    [] op = "get_canslewasync" -> can_slew_async
    [] op = "get_canunpark" -> can_unpark

\* define_get("canpark", ...) and its like: the handler calls the getter
\* itself, with no gate before it
get_capability ==
  \E op \in CapGetters :
    Call(op, <<>>, visit(Pure("value", get_can(CapOf(op))), <<>>, Drv),
         index_bool)

NextCaps ==
  \/ get_capability
  \/ put_connected
  \/ priv_findhome
  \/ priv_park
  \/ priv_setpark
  \/ priv_unpark
  \/ priv_put_targetdeclination
  \/ priv_slewtocoordinatesasync

SpecCaps == Init /\ [][NextCaps]_vars

-----------------------------------------------------------------------------
(* The mount driven by hand and by goto while the wall clock runs: moveaxis  *)
(* at a rate or at rate zero, slewtocoordinatesasync, abortslew, and the     *)
(* reads of slewing and of the position in between.                          *)

\* the wall clock of the hand-driven mount stops here
MaxMotionNow == 3

\* degrees per second, in thousandths: one degree per second, and the stop
MotionRates == {0, 1 * Milli}

\* the targets of the gotos: the scenario's 6 h, 45 degrees, and the origin
MotionTargets == {<<6 * Milli, 45 * Milli>>, <<0, 0>>}

\* telescope::priv_moveaxis at any time
drive_axis ==
  \E axis \in AxisVals, rate \in MotionRates :
    Call("moveaxis", <<axis, rate>>,
         visit(moveaxis(axis, rate, NoExt, FALSE),
               <<check_connected,
                check_axis(axis),
                check_flag(get_canmoveaxis(axis, FALSE)),
                check_value(rate > -9 * Milli /\ rate < 9 * Milli)>>, Drv), index_nullptr)

\* telescope::priv_slewtocoordinatesasync at any time
goto_target ==
  \E target \in MotionTargets :
    Call("slewtocoordinatesasync", target,
         visit(slewtocoordinatesasync(target[1], target[2], NoExt, FALSE),
               <<check_connected,
                check_flag(get_can(can_slew_async)),
                check_value(target[2] >= -90 * Milli /\ target[2] <= 90 * Milli),
                check_value(target[1] >= 0 /\ target[1] <= 24 * Milli)>>, Drv),
         index_nullptr)

\* utcdate_t::now() moves on by a second, up to MaxMotionNow
Elapse ==
  /\ now < MaxMotionNow
  /\ Tick

NextMotion ==
  \/ drive_axis
  \/ goto_target
  \/ priv_abortslew
  \/ priv_get_slewing
  \/ priv_get_rightascension
  \/ priv_get_declination
  \/ Elapse

SpecMotion == InitLine /\ [][NextMotion]_vars

-----------------------------------------------------------------------------
(* The clock of the mount, set and read while the wall clock runs:           *)
(* PUT utcdate with a well-formed date, GET utcdate.                         *)

\* the dates the client sets, in seconds
ClockVals == {100, 500}

\* telescope::priv_put_utcdate with a date that parse_utc accepts
set_clock ==
  \E utcdate \in ClockVals :
    Call("put_utcdate", <<BoolVal(TRUE), utcdate>>,
         visit(put_utcdate([parsed |-> TRUE, utcdate |-> utcdate], NoExt, FALSE),
               <<check_connected>>, Drv), index_nullptr)

NextClock ==
  \/ set_clock
  \/ priv_get_utcdate
  \/ Tick

SpecClock == InitLine /\ [][NextClock]_vars

-----------------------------------------------------------------------------
(* The targets kept by the driver, with a line that may fail: the mount is   *)
(* slewed over a line with each fault, the targets are written one by one,   *)
(* and both are read.                                                        *)

\* telescope::priv_slewtocoordinatesasync over a line with any fault
slew_on_line ==
  \E target \in SlewTargets, ext \in LineExt :
    Call("slewtocoordinatesasync", target,
         visit(slewtocoordinatesasync(target[1], target[2], ext, FALSE),
               <<check_connected,
                check_flag(get_can(can_slew_async)),
                check_value(target[2] >= -90 * Milli /\ target[2] <= 90 * Milli),
                check_value(target[1] >= 0 /\ target[1] <= 24 * Milli)>>, Drv),
         index_nullptr)

NextTarget ==
  \/ slew_on_line
  \/ priv_put_targetdeclination
  \/ priv_put_targetrightascension
  \/ priv_get_targetdeclination
  \/ priv_get_targetrightascension

SpecTarget == InitLine /\ [][NextTarget]_vars

-----------------------------------------------------------------------------
(* Tracking switched on and off and asked for, on a mount that was left in   *)
(* any of its tracking modes, while the wall clock runs.                     *)

\* tracking_mode_kind
TrackingModes == {off, alt_azm, eq_north, eq_south}

\* the connected mount of InitLine, in the tracking mode it was left in
InitTracking ==
  /\ is_connected = TRUE
  /\ flags = AllFlags
  /\ targetdeclination = TargetUnset
  /\ targetrightascension = TargetUnset
  /\ \E mode \in TrackingModes :
       sim = [simulator_protocol([latitude |-> 0, longitude |-> 0])
                EXCEPT !.tracking_mode = mode]
  /\ now = 0
  /\ last = NoCall
  /\ written = [targetdeclination |-> NeverWritten,
                targetrightascension |-> NeverWritten]
  /\ vin = NoVisit
  /\ thread = <<>>
  /\ fd = "none"
  /\ server_transaction_id = 0
  /\ history = <<>>

\* telescope::priv_put_tracking with either value
set_tracking ==
  \E tracking \in BOOLEAN :
    Call("put_tracking", <<BoolVal(tracking)>>,
         visit(put_tracking(tracking, NoExt, FALSE),
               <<check_connected>>, Drv), index_nullptr)

NextTracking ==
  \/ set_tracking
  \/ priv_get_tracking
  \/ Tick

SpecTracking == InitTracking /\ [][NextTracking]_vars

-----------------------------------------------------------------------------
(* The gates as the arguments of visit that they are: a facade method calls  *)
(* visit(callable, gate, gate, ...), and every argument of a call is         *)
(* evaluated before the call is made.  history keeps the methods of the      *)
(* driver that the evaluation of the gates of the last request called.       *)

\* one argument of visit: the result it evaluates to, and the methods of the
\* driver that its evaluation calls
Gate(res, calls) == [res |-> res, calls |-> calls]

\* the results handed to visit
RECURSIVE GateResults(_)
GateResults(gates) ==
  IF gates = <<>> THEN <<>>
  ELSE <<Head(gates).res>> \o GateResults(Tail(gates))

\* the driver methods called while the arguments were evaluated: those of
\* every argument, whatever the other arguments evaluate to
RECURSIVE GateCalls(_)
GateCalls(gates) ==
  IF gates = <<>> THEN <<>>
  ELSE Head(gates).calls \o GateCalls(Tail(gates))

\* one request to a facade method whose gates are the arguments gates
CallGated(op, args, fn, gates, index) ==
  With(visit(fn, GateResults(gates), Drv), LAMBDA v :
    /\ targetdeclination' = v.post.targetdeclination
    /\ targetrightascension' = v.post.targetrightascension
    /\ sim' = v.post.sim
    /\ last' = [op |-> op, args |-> args, res |-> Render(v.res, index),
                calls |-> v.calls, wire |-> v.wire,
                ret |-> IF v.calls = 0 THEN NoReturn ELSE Render(v.ret, index)]
    /\ written' = WrittenBy(op, args, v)
    /\ history' = GateCalls(gates)
    /\ UNCHANGED <<is_connected, flags, now, vin, thread, fd,
                   server_transaction_id>>)

\* telescope::priv_synctotarget
gated_synctotarget ==
  CallGated("synctotarget", <<>>, Pure("void", OkVoid),
            <<Gate(check_connected, <<>>),
              Gate(check_parked, <<"get_atpark">>),
              Gate(check_flag(get_can(can_sync)), <<"get_cansync">>)>>,
            index_nullptr)

\* telescope::priv_moveaxis
gated_moveaxis ==
  \E axis \in {-1, 0, 2, 3}, rate \in {-9 * Milli, 2 * Milli, 9 * Milli}, ub \in BOOLEAN :
    CallGated("moveaxis", <<axis, rate>>, moveaxis(axis, rate, NoExt, ub),
              <<Gate(check_connected, <<>>),
                Gate(check_axis(axis), <<>>),
                Gate(check_flag(get_canmoveaxis(axis, ub)), <<"get_canmoveaxis">>),
                Gate(check_value(rate > -9 * Milli /\ rate < 9 * Milli), <<>>)>>,
              index_nullptr)

NextGates ==
  \/ put_connected
  \/ gated_synctotarget
  \/ gated_moveaxis

SpecGates == Init /\ [][NextGates]_vars

-----------------------------------------------------------------------------
(* A slew polled at leisure: the client commands the slew and then asks for  *)
(* the position after pauses of up to MaxPause seconds.                      *)

\* the longest pause between two commands, in seconds
MaxPause == 4

\* the wall clock of the slew polled at leisure stops here
MaxPauseNow == 8

\* utcdate_t::now() moves on by a second, up to MaxPause seconds after the
\* last command
Pause ==
  /\ now < MaxPauseNow
  /\ now - sim.last_ts < MaxPause
  /\ now' = now + 1
  /\ UNCHANGED <<is_connected, flags, targetdeclination, targetrightascension,
                 sim, last, written, vin, srv>>

NextPause ==
  \/ slew_from_rest
  \/ priv_get_rightascension
  \/ priv_get_slewing
  \/ Pause

SpecPause == InitLine /\ [][NextPause]_vars

----------------------------------------------------------------------------
(* The HTTP side: alpaca_resource::render (include/resource.hpp) around     *)
(* device_resource::handle_get (unnamed/part_005).  handle_get answers with *)
(* a result; render knows a value, an http_error_kind and a thrown          *)
(* alpaca_error.  The two meet as follows: a held value is the value, the   *)
(* error http_error(404) is not_found, http_error(400) is bad_request, any  *)
(* other error is the alpaca_error that render catches.                     *)

\* requests after which no new one is accepted
MaxRequests == 3

\* the largest value of the int behind std::atomic<int>
INT_MAX == 2147483647

\* errors.hpp: http_error(status_code, str)
http_error(status_code, str) == alpaca_error(4096 + status_code, str)

DigitChars == <<"0", "1", "2", "3", "4", "5", "6", "7", "8", "9">>

IsDigit(c) == \E d \in 1..10 : DigitChars[d] = c

DigitOf(c) == (CHOOSE d \in 1..10 : DigitChars[d] = c) - 1

\* the number that the leading digits of str spell, after acc
RECURSIVE DigitsPrefix(_, _)
DigitsPrefix(str, acc) ==
  IF str = <<>> \/ ~IsDigit(Head(str)) THEN acc
  ELSE DigitsPrefix(Tail(str), acc * 10 + DigitOf(Head(str)))

\* util::parse_int: std::stoi reads an optional sign and the digits that
\* follow, and stops at the first other character; with no digit to read it
\* throws and default_value is returned
parse_int(str, default_value) ==
  LET negative == str # <<>> /\ Head(str) = "-"
      digits   == IF negative THEN Tail(str) ELSE str
  IN  IF digits = <<>> \/ ~IsDigit(Head(digits)) THEN default_value
      ELSE IF negative THEN -DigitsPrefix(digits, 0)
      ELSE DigitsPrefix(digits, 0)

\* std::sscanf(value, "%u", &id): the count of conversions and the number
\* stored; nothing is stored when the text does not start with a digit (the
\* texts of the model carry no sign and no leading blank)
sscanf_u(str) ==
  IF str = <<>> \/ ~IsDigit(Head(str)) THEN [count |-> 0, value |-> 0]
  ELSE [count |-> 1, value |-> DigitsPrefix(str, 0)]

\* manager.add_telescope(&tel0): devices.size() of the telescope resource
NDevices == 1

\* device_resource(device_type): the operations of its two tables
get_operations == {"connected", "description", "driverinfo", "driverversion",
                   "interfaceversion", "name", "supportedactions"}

put_operations == {"action", "commandblind", "commandbool", "commandstring",
                   "connected"}

\* what handle_get did with a request: its result; whether it invoked a
\* handler; the indices it read devices[] at; crashed when the process did
\* not survive the call
Handled(res, called, device, crashed) ==
  [res |-> res, called |-> called, device |-> device, crashed |-> crashed]

NotFound == Handled(Render(Err(http_error(404, "not found")), index_nullptr),
                    FALSE, {}, FALSE)

\* handle_get as it would be if an operation missing from its table were
\* answered with an empty value
handle_get_lenient(req, ret, ub) ==
  IF req.device_type # "telescope" THEN NotFound
  ELSE With(parse_int(req.device_id, -1), LAMBDA device_id :
    IF device_id < 0 \/ device_id > NDevices THEN NotFound
    ELSE IF req.method = "GET" /\ req.operation \in get_operations
    THEN Handled(ret, TRUE, {device_id}, device_id >= NDevices /\ ub)
    ELSE IF req.method = "PUT" /\ req.operation \in put_operations
    THEN Handled(Render(ret, index_nullptr), TRUE, {device_id},
                 device_id >= NDevices /\ ub)
    ELSE Handled(Ok(json_null), FALSE, {device_id}, FALSE))

\* device_resource::handle_get.  ret is what the handler of the operation
\* returns when it is invoked.  devices[device_id] with device_id = size()
\* reads past the end of the vector: the pointer it yields is garbage, and
\* a handler invoked on it returns anything or takes the process down (ub).
handle_get(req, ret, ub) ==
  IF req.device_type # "telescope" THEN NotFound
  ELSE With(parse_int(req.device_id, -1), LAMBDA device_id :
    IF device_id < 0 \/ device_id > NDevices THEN NotFound
    ELSE IF req.method = "GET"
    THEN IF req.operation \in get_operations
         THEN Handled(ret, TRUE, {device_id}, device_id >= NDevices /\ ub)
         ELSE [NotFound EXCEPT !.device = {device_id}]
    ELSE IF req.method = "PUT"
    THEN IF req.operation \in put_operations
         THEN Handled(Render(ret, index_nullptr), TRUE, {device_id},
                      device_id >= NDevices /\ ub)
         ELSE [NotFound EXCEPT !.device = {device_id}]
    ELSE Handled(Render(Err(http_error(400, "bad request")), index_nullptr),
                 FALSE, {device_id}, FALSE))

\* the counter as it would be given out if it were read and not incremented
atomic_load(x) == x

\* ++server_transaction_id on the std::atomic<int>: one indivisible
\* read-modify-write that wraps around at INT_MAX
atomic_preincrement(x) == IF x = INT_MAX THEN (-INT_MAX) - 1 ELSE x + 1

\* the envelope js_out as render builds it: no "Value" key yet
js_object(client_id, client_transaction_id, stid) ==
  [has_Value |-> FALSE, Value |-> json_null,
   ClientID |-> client_id, ErrorNumber |-> 0, ErrorMessage |-> "",
   ClientTransactionID |-> client_transaction_id,
   ServerTransactionID |-> stid]

NoEnvelope == js_object(0, 0, 0)

\* alpaca_resource::ok, not_found, bad_request: the HTTP response
http_response(status, text, envelope, js) ==
  [status |-> status, text |-> text, envelope |-> envelope, js |-> js]

ok(js) == http_response(200, "", TRUE, js)

not_found == http_response(404, "Not Found", FALSE, NoEnvelope)

bad_request(msg) == http_response(400, msg, FALSE, NoEnvelope)

\* the process ended before answering
no_response == http_response(0, "", FALSE, NoEnvelope)

NoRequest == [method |-> "GET", device_type |-> "telescope", device_id |-> <<>>,
              operation |-> "", args |-> <<>>]

\* the locals of a thread that is not in render, resp the answer to its request
Rendered(req, resp, handled) ==
  [pc |-> "idle", req |-> req, js_out |-> NoEnvelope, resp |-> resp,
   handled |-> handled]

NotRendering == Rendered(NoRequest, no_response, NotFound)

\* the id of args[key]: 0 for a missing key, else what sscanf stores
ScanId(args, key) ==
  IF key \in DOMAIN args THEN sscanf_u(args[key]) ELSE [count |-> 1, value |-> 0]

\* render as it would be if the counter were a plain int: the increment is a
\* load and a store, and another thread can run between the two
render_begin_torn(t, req) ==
  /\ Len(history) < MaxRequests
  /\ \/ /\ thread[t].pc = "idle"
        /\ thread' = [thread EXCEPT ![t] =
             [pc |-> "load", req |-> req,
              js_out |-> js_object(0, 0, server_transaction_id),
              resp |-> no_response, handled |-> NotFound]]
        /\ UNCHANGED <<server_transaction_id, history>>
     \/ /\ thread[t].pc = "load"
        /\ req = thread[t].req
        /\ server_transaction_id' =
             atomic_preincrement(thread[t].js_out.ServerTransactionID)
        /\ thread' = [thread EXCEPT ![t].pc = "handle",
                        ![t].js_out.ServerTransactionID = server_transaction_id']
        /\ history' = Append(history,
             [of |-> t, id |-> server_transaction_id', wrapped |-> FALSE])
  /\ UNCHANGED <<tel, fd>>

\* alpaca_resource::render up to the construction of js_out: the two ids
\* are read from the arguments, a malformed one ends the request with 400;
\* then the counter is incremented and the envelope holds its new value
render_begin(t, req) ==
  /\ thread[t].pc = "idle"
  /\ Len(history) < MaxRequests
  /\ With(ScanId(req.args, "ClientTransactionID"), LAMBDA ctid :
     With(ScanId(req.args, "ClientID"), LAMBDA cid :
       IF ctid.count # 1
       THEN /\ thread' = [thread EXCEPT ![t] =
                 Rendered(req, bad_request("Invalid 'ClientTransactionID'"), NotFound)]
            /\ UNCHANGED <<server_transaction_id, history>>
       ELSE IF cid.count # 1
       THEN /\ thread' = [thread EXCEPT ![t] =
                 Rendered(req, bad_request("Invalid 'ClientID'"), NotFound)]
            /\ UNCHANGED <<server_transaction_id, history>>
       ELSE /\ server_transaction_id' = atomic_preincrement(server_transaction_id)
            /\ thread' = [thread EXCEPT ![t] =
                 [pc |-> "handle", req |-> req,
                  js_out |-> js_object(cid.value, ctid.value,
                                       server_transaction_id'),
                  resp |-> no_response, handled |-> NotFound]]
            /\ history' = Append(history,
                 [of |-> t, id |-> server_transaction_id',
                  wrapped |-> \/ server_transaction_id = INT_MAX
                              \/ \E i \in 1..Len(history) : history[i].wrapped])))
  /\ UNCHANGED <<tel, fd>>

\* the rest of render: handle_get is called and its outcome becomes the
\* response.  A value goes to js_out["Value"]; not_found and bad_request
\* become plain 404 and 400 responses; an alpaca_error sets ErrorNumber and
\* ErrorMessage of js_out and leaves it without a "Value" key.
render_return(t, ret, ub) ==
  /\ thread[t].pc = "handle"
  /\ With(handle_get(thread[t].req, ret, ub), LAMBDA h :
       thread' = [thread EXCEPT ![t] = Rendered(thread[t].req,
         IF h.crashed THEN no_response
         ELSE IF h.res.has_value
         THEN ok([thread[t].js_out EXCEPT !.has_Value = TRUE, !.Value = h.res.value])
         ELSE IF h.res.error.error_number = 4096 + 404 THEN not_found
         ELSE IF h.res.error.error_number = 4096 + 400
         THEN bad_request("invalid method")
         ELSE ok([thread[t].js_out EXCEPT
                    !.ErrorNumber = h.res.error.error_number,
                    !.ErrorMessage = h.res.error.error_message]),
         h)])
  /\ UNCHANGED <<tel, fd, server_transaction_id, history>>

\* what a handler returns: a value, nothing, or an error of the device
HandlerReturns ==
  {Ok(json_value(index_bool, 1)), Ok(json_null),
   Render(Err(not_connected), index_nullptr),
   Render(Err(invalid_value), index_nullptr)}

\* the arguments of a request: none, both ids, or a malformed id
ArgVals ==
  {<<>>,
   [ClientID |-> <<"7">>, ClientTransactionID |-> <<"1", "2">>],
   [ClientID |-> <<"x">>],
   [ClientTransactionID |-> <<"x">>]}

Request(method, device_type, device_id, operation, args) ==
  [method |-> method, device_type |-> device_type, device_id |-> device_id,
   operation |-> operation, args |-> args]

\* the requests of the threads that render at the same time
RenderRequests ==
  {Request("GET", "telescope", <<"0">>, "connected", ArgVals_i) :
     ArgVals_i \in {<<>>, [ClientID |-> <<"x">>]}}
  \cup {Request("PUT", "telescope", <<"0">>, "name", <<>>)}

InitRender ==
  /\ is_connected = FALSE
  /\ flags = none
  /\ targetdeclination = TargetUnset
  /\ targetrightascension = TargetUnset
  /\ sim = simulator_protocol([latitude |-> 0, longitude |-> 0])
  /\ now = 0
  /\ last = NoCall
  /\ written = [targetdeclination |-> NeverWritten,
                targetrightascension |-> NeverWritten]
  /\ vin = NoVisit
  /\ thread = [t \in Threads |-> NotRendering]
  /\ fd = <<>>
  /\ server_transaction_id \in {0, INT_MAX - 1}
  /\ history = <<>>

NextRender ==
  \/ \E t \in Threads, req \in RenderRequests : render_begin(t, req)
  \/ \E t \in Threads, ret \in HandlerReturns : render_return(t, ret, FALSE)

SpecRender == InitRender /\ [][NextRender]_vars

\* every request of one client: methods, device types, device numbers,
\* operations, arguments
AllRequests ==
  {Request(method, device_type, device_id, operation, args) :
     method \in {"GET", "PUT", "DELETE"},
     device_type \in {"telescope", "camera"},
     device_id \in {<<"0">>, <<"1">>, <<"2">>, <<"-", "1">>, <<"x">>,
                    <<"0", "x">>, <<>>},
     operation \in {"connected", "name", "action", "nosuch"},
     args \in ArgVals}

InitDispatch ==
  /\ InitRender
  /\ server_transaction_id = 0

\* one request at a time, each rendered to its end
NextDispatch ==
  \/ /\ history = <<>>
     /\ \E req \in AllRequests : render_begin(1, req)
  \/ \E ret \in HandlerReturns, ub \in BOOLEAN : render_return(1, ret, ub)

SpecDispatch == InitDispatch /\ [][NextDispatch]_vars

-----------------------------------------------------------------------------
(* The arguments of a request and the fields read from them: the argument   *)
(* map that render fills under the comparator of the method (resource.hpp), *)
(* field::get and the conversors (parser.hpp), and three handlers of the     *)
(* telescope that read one field each.  Texts are sequences of characters.   *)

UpperCase == <<"A", "B", "C", "D", "E", "F", "G", "H", "I", "J", "K", "L", "M",
               "N", "O", "P", "Q", "R", "S", "T", "U", "V", "W", "X", "Y", "Z">>

LowerCase == <<"a", "b", "c", "d", "e", "f", "g", "h", "i", "j", "k", "l", "m",
               "n", "o", "p", "q", "r", "s", "t", "u", "v", "w", "x", "y", "z">>

\* the character code of a letter; the keys of the model hold letters only
CharCode(c) ==
  IF \E n \in 1..26 : UpperCase[n] = c
  THEN 64 + (CHOOSE n \in 1..26 : UpperCase[n] = c)
  ELSE 96 + (CHOOSE n \in 1..26 : LowerCase[n] = c)

\* std::tolower on a character code
tolower(code) == IF code >= 65 /\ code <= 90 THEN code + 32 ELSE code

\* the text as one string, for the messages that quote it
RECURSIVE Joined(_)
Joined(str) == IF str = <<>> THEN "" ELSE Head(str) \o Joined(Tail(str))

\* the loop of COMPARATOR(x, y, op) from character n on, op being LOWER when
\* insensitive and NO_OP otherwise
RECURSIVE CompareFrom(_, _, _, _)
CompareFrom(x, y, n, insensitive) ==
  IF n > Len(x) THEN FALSE
  ELSE With(IF insensitive THEN tolower(CharCode(x[n])) ELSE CharCode(x[n]),
       LAMBDA xc :
       With(IF insensitive THEN tolower(CharCode(y[n])) ELSE CharCode(y[n]),
       LAMBDA yc :
         IF xc < yc THEN TRUE
         ELSE IF xc > yc THEN FALSE
         ELSE CompareFrom(x, y, n + 1, insensitive)))

\* util::compare_less_sensitive: COMPARATOR(a, b, NO_OP), shorter texts first
compare_less_sensitive(a, b) ==
  IF Len(a) < Len(b) THEN TRUE
  ELSE IF Len(a) > Len(b) THEN FALSE
  ELSE CompareFrom(a, b, 1, FALSE)

\* util::compare_less_insensitive: COMPARATOR(a, b, LOWER)
compare_less_insensitive(a, b) ==
  IF Len(a) < Len(b) THEN TRUE
  ELSE IF Len(a) > Len(b) THEN FALSE
  ELSE CompareFrom(a, b, 1, TRUE)

\* comparator_t as it would be if every method compared keys as PUT does
comparator_t_sensitive(method, a, b) == compare_less_sensitive(a, b)

\* comparator_t of render: insensitive for GET, sensitive for any other method
comparator_t(method, a, b) ==
  IF method = "GET" THEN compare_less_insensitive(a, b)
  ELSE compare_less_sensitive(a, b)

\* arguments_t::find: the place of the entry whose key is equivalent to key
\* under the comparator, 0 for end()
args_find(args, method, key) ==
  IF \E n \in 1..Len(args) : /\ ~comparator_t(method, args[n].key, key)
                             /\ ~comparator_t(method, key, args[n].key)
  THEN CHOOSE n \in 1..Len(args) : /\ ~comparator_t(method, args[n].key, key)
                                   /\ ~comparator_t(method, key, args[n].key)
  ELSE 0

\* args[key] = value: the entry equivalent to key takes the value and keeps
\* its own key; with no such entry one is added
args_assign(args, method, key, value) ==
  With(args_find(args, method, key), LAMBDA n :
    IF n = 0 THEN Append(args, [key |-> key, value |-> value])
    ELSE [args EXCEPT ![n].value = value])

\* the loop of render over the tokens key=value of the query string or body
RECURSIVE parse_tokens(_, _, _)
parse_tokens(args, method, tokens) ==
  IF tokens = <<>> THEN args
  ELSE parse_tokens(args_assign(args, method, Head(tokens)[1], Head(tokens)[2]),
                    method, Tail(tokens))

\* errors.hpp: custom_error(str)
custom_error(str) == alpaca_error(1280, str)

\* the digits a text starts with
RECURSIVE DigitsOf(_)
DigitsOf(str) ==
  IF str = <<>> \/ ~IsDigit(Head(str)) THEN <<>>
  ELSE <<Head(str)>> \o DigitsOf(Tail(str))

\* the text after its sign, if it has one
Unsigned(v) == IF v # <<>> /\ Head(v) \in {"-", "+"} THEN Tail(v) ELSE v

Signed(v, n) == IF v # <<>> /\ Head(v) = "-" THEN -n ELSE n

\* util::equals_insentive
equals_insentive(x, y) ==
  /\ Len(x) = Len(y)
  /\ \A n \in 1..Len(x) : tolower(CharCode(x[n])) = tolower(CharCode(y[n]))

\* conversor<bool>::conv: true or false in any letter case
conv_bool(v) ==
  IF equals_insentive(v, <<"t", "r", "u", "e">>) THEN Ok(1)
  ELSE IF equals_insentive(v, <<"f", "a", "l", "s", "e">>) THEN Ok(0)
  ELSE Err(custom_error("not valid bool"))

\* conversor<int>::conv: std::strtol reads a sign and the digits after it and
\* stops at the first other character; it fails when it read no digit
conv_int(v) ==
  IF DigitsOf(Unsigned(v)) = <<>> THEN Err(custom_error("not valid int"))
  ELSE Ok(Signed(v, DigitsPrefix(Unsigned(v), 0)))

\* conversor<float>::conv: std::strtof reads a sign, digits, and a point with
\* more digits (the texts of the model have no exponent); it fails when it
\* read no digit.  The value is in thousandths.
conv_float(v) ==
  With(DigitsOf(Unsigned(v)), LAMBDA whole :
  With(SubSeq(Unsigned(v), Len(whole) + 1, Len(Unsigned(v))), LAMBDA rest :
  With(IF rest # <<>> /\ Head(rest) = "." THEN DigitsOf(Tail(rest)) ELSE <<>>,
  LAMBDA frac :
    IF whole = <<>> /\ frac = <<>> THEN Err(custom_error("not valid float"))
    ELSE Ok(Signed(v, DigitsPrefix(whole, 0) * Milli
                      + DigitsPrefix(SubSeq(frac \o <<"0", "0", "0">>, 1, 3), 0))))))

conversor(type, v) ==
  CASE type = "bool" -> conv_bool(v)
    [] type = "int" -> conv_int(v)
    [] type = "float" -> conv_float(v)

\* a field: its name and the type it is decoded to
field(name, type) == [name |-> name, type |-> type]

\* fields.hpp
axis_f == field(<<"A", "x", "i", "s">>, "int")

connected_f == field(<<"C", "o", "n", "n", "e", "c", "t", "e", "d">>, "bool")

siteelevation_f == field(<<"S", "i", "t", "e", "E", "l", "e", "v", "a", "t",
                           "i", "o", "n">>, "float")

\* field::get as it would be if a value that fails decoding were read as 0
field_get_lenient(f, args, method) ==
  With(args_find(args, method, f.name), LAMBDA n :
    IF n = 0
    THEN Err(custom_error("Field '" \o Joined(f.name) \o "' not found"))
    ELSE With(conversor(f.type, args[n].value), LAMBDA value :
      IF ~is_error(value) THEN Ok(value.value) ELSE Ok(0)))

\* field::get
field_get(f, args, method) ==
  With(args_find(args, method, f.name), LAMBDA n :
    IF n = 0
    THEN Err(custom_error("Field '" \o Joined(f.name) \o "' not found"))
    ELSE With(conversor(f.type, args[n].value), LAMBDA value :
      IF ~is_error(value) THEN Ok(value.value)
      ELSE Err(custom_error("Invalid '" \o Joined(f.name) \o "' field"))))

\* the field that the handler of the operation reads
FieldOf(operation) ==
  CASE operation = "canmoveaxis" -> axis_f
    [] operation = "siteelevation" -> siteelevation_f
    [] operation = "connected" -> connected_f

\* what a handler did: its result, whether it reached the telescope, and
\* the connection flag it leaves
FieldHandled(res, called, connected) ==
  [res |-> res, called |-> called, connected |-> connected]

\* the handlers of GET canmoveaxis, PUT siteelevation and PUT connected:
\* parser_t::parse of the one field, then flat_map or map into the telescope
field_handler(operation, args, method, ub) ==
  With(field_get(FieldOf(operation), args, method), LAMBDA parsed :
    IF is_error(parsed)
    THEN FieldHandled(Render(parsed, index_nullptr), FALSE, is_connected)
    ELSE CASE operation = "canmoveaxis" ->
                FieldHandled(
                  Render(flat_map(check_axis(parsed.value),
                                  get_canmoveaxis(parsed.value, ub)), index_bool),
                  TRUE, is_connected)
           [] operation = "siteelevation" ->
                FieldHandled(
                  Render(visit(Pure("void", Err(not_implemented)),
                               <<check_connected,
                                check_value(parsed.value >= -300 * Milli
                                            /\ parsed.value <= 10000 * Milli)>>,
                               Drv).res, index_nullptr),
                  TRUE, is_connected)
           [] operation = "connected" ->
                FieldHandled(Ok(json_null), TRUE, parsed.value = 1))

\* the id of the argument named key: 0 when it is missing
scan_id(args, method, key) ==
  With(args_find(args, method, key), LAMBDA n :
    IF n = 0 THEN [count |-> 1, value |-> 0] ELSE sscanf_u(args[n].value))

ClientTransactionID == <<"C", "l", "i", "e", "n", "t", "T", "r", "a", "n", "s",
                         "a", "c", "t", "i", "o", "n", "I", "D">>

ClientID == <<"C", "l", "i", "e", "n", "t", "I", "D">>

\* alpaca_resource::render of one request, from the arguments to the response
render_fields(req, ub) ==
  /\ Len(history) < MaxRequests
  /\ With(parse_tokens(<<>>, req.method, req.args), LAMBDA args :
     With(scan_id(args, req.method, ClientTransactionID), LAMBDA ctid :
     With(scan_id(args, req.method, ClientID), LAMBDA cid :
       IF ctid.count # 1
       THEN /\ thread' = [thread EXCEPT ![1] =
                 Rendered(req, bad_request("Invalid 'ClientTransactionID'"), NotFound)]
            /\ UNCHANGED <<is_connected, last, server_transaction_id, history>>
       ELSE IF cid.count # 1
       THEN /\ thread' = [thread EXCEPT ![1] =
                 Rendered(req, bad_request("Invalid 'ClientID'"), NotFound)]
            /\ UNCHANGED <<is_connected, last, server_transaction_id, history>>
       ELSE With(field_handler(req.operation, args, req.method, ub), LAMBDA h :
            /\ server_transaction_id' = atomic_preincrement(server_transaction_id)
            /\ history' = Append(history,
                 [of |-> 1, id |-> server_transaction_id', wrapped |-> FALSE])
            /\ is_connected' = h.connected
            /\ last' = [op |-> req.operation, args |-> <<>>, res |-> h.res,
                        calls |-> IF h.called THEN 1 ELSE 0, wire |-> <<>>,
                        ret |-> NoReturn]
            /\ thread' = [thread EXCEPT ![1] = Rendered(req,
                 With(js_object(cid.value, ctid.value, server_transaction_id'),
                 LAMBDA js_out :
                   IF h.res.has_value
                   THEN ok([js_out EXCEPT !.has_Value = TRUE, !.Value = h.res.value])
                   ELSE ok([js_out EXCEPT
                              !.ErrorNumber = h.res.error.error_number,
                              !.ErrorMessage = h.res.error.error_message])),
                 Handled(h.res, h.called, {0}, FALSE))]))))
  /\ UNCHANGED <<flags, targetdeclination, targetrightascension, sim, now,
                 written, vin, fd>>

\* the spellings of the key of a field: its own, all lower case, all upper
\* case, and another word of the same length
KeysOf(operation) ==
  CASE operation = "canmoveaxis" ->
         {<<"A", "x", "i", "s">>, <<"a", "x", "i", "s">>, <<"A", "X", "I", "S">>,
          <<"A", "x", "e", "s">>}
    [] operation = "siteelevation" ->
         {siteelevation_f.name,
          <<"s", "i", "t", "e", "e", "l", "e", "v", "a", "t", "i", "o", "n">>}
    [] operation = "connected" ->
         {connected_f.name, <<"C", "O", "N", "N", "E", "C", "T", "E", "D">>}

\* the texts of a value: ones that decode and ones that do not
TextsOf(operation) ==
  CASE operation = "canmoveaxis" -> {<<"0">>, <<"1">>, <<"7">>, <<"x">>, <<>>}
    [] operation = "siteelevation" ->
         {<<"1", "0", "0">>, <<"1", ".", "5">>, <<"x">>, <<>>}
    [] operation = "connected" ->
         {<<"t", "r", "u", "e">>, <<"F", "a", "l", "s", "e">>, <<"1">>, <<>>}

MethodOf(operation) == IF operation = "canmoveaxis" THEN "GET" ELSE "PUT"

\* the requests: no argument, one argument under each spelling of the key,
\* and two arguments whose keys differ in letter case
FieldRequests ==
  UNION {
    {Request(MethodOf(operation), "telescope", <<"0">>, operation, <<>>)}
    \cup {Request(MethodOf(operation), "telescope", <<"0">>, operation,
                  <<<<key, text>>>>) :
            key \in KeysOf(operation), text \in TextsOf(operation)}
    \cup {Request(MethodOf(operation), "telescope", <<"0">>, operation,
                  <<<<FieldOf(operation).name, text>>, <<key, <<"x">>>>>>) :
            key \in KeysOf(operation) \ {FieldOf(operation).name},
            text \in TextsOf(operation)}
    : operation \in {"canmoveaxis", "siteelevation", "connected"}}
  \cup {Request("GET", "telescope", <<"0">>, "canmoveaxis",
                <<<<axis_f.name, <<"0">>>>, <<key, text>>>>) :
          key \in {<<"c", "l", "i", "e", "n", "t", "i", "d">>,
                   <<"c", "l", "i", "e", "n", "t", "t", "r", "a", "n", "s",
                     "a", "c", "t", "i", "o", "n", "i", "d">>},
          text \in {<<"7">>, <<"x">>}}

InitFields ==
  /\ is_connected = FALSE
  /\ flags = SomeFlags
  /\ targetdeclination = TargetUnset
  /\ targetrightascension = TargetUnset
  /\ sim = simulator_protocol([latitude |-> 0, longitude |-> 0])
  /\ now = 0
  /\ last = NoCall
  /\ written = [targetdeclination |-> NeverWritten,
                targetrightascension |-> NeverWritten]
  /\ vin = NoVisit
  /\ thread = [t \in Threads |-> NotRendering]
  /\ fd = <<>>
  /\ server_transaction_id = 0
  /\ history = <<>>

NextFields == \E req \in FieldRequests, ub \in BOOLEAN : render_fields(req, ub)

SpecFields == InitFields /\ [][NextFields]_vars

----------------------------------------------------------------------------
(* The contract of the gated facade, as the properties below state it.      *)
(* A facade call does not change is_connected or flags, so the state after  *)
(* the call still tells whether the device was connected and capable.       *)

\* the driver state a facade call can change
drv == <<targetdeclination, targetrightascension, sim>>

Fails(r, e) == ~r.has_value /\ r.error = e

\* the 56 facade methods; each is gated on the connection
FacadeOps ==
  {"get_altitude", "get_azimuth", "get_declination", "get_rightascension",
   "get_athome", "get_atpark", "get_ispulseguiding", "get_slewing",
   "get_siderealtime", "get_destinationsideofpier",
   "get_declinationrate", "put_declinationrate",
   "get_rightascensionrate", "put_rightascensionrate",
   "get_doesrefraction", "put_doesrefraction",
   "get_guideratedeclination", "put_guideratedeclination",
   "get_guideraterightascension", "put_guideraterightascension",
   "get_sideofpier", "put_sideofpier", "get_siteelevation", "put_siteelevation",
   "get_sitelatitude", "put_sitelatitude", "get_sitelongitude", "put_sitelongitude",
   "get_slewsettletime", "put_slewsettletime",
   "get_targetdeclination", "put_targetdeclination",
   "get_targetrightascension", "put_targetrightascension",
   "get_tracking", "put_tracking", "get_trackingrate", "put_trackingrate",
   "get_utcdate", "put_utcdate",
   "abortslew", "findhome", "moveaxis", "park", "pulseguide", "setpark",
   "slewtoaltaz", "slewtoaltazasync", "slewtocoordinates",
   "slewtocoordinatesasync", "slewtotarget", "slewtotargetasync",
   "synctoaltaz", "synctocoordinates", "synctotarget", "unpark"}

\* the capability bit of each capability-gated operation; moveaxis has one
\* bit per axis
CapTable ==
  [get_ispulseguiding          |-> can_pulse_guide,
   put_declinationrate         |-> can_set_declination_rate,
   put_rightascensionrate      |-> can_set_right_ascension_rate,
   put_guideratedeclination    |-> can_set_guide_rates,
   put_guideraterightascension |-> can_set_guide_rates,
   findhome                    |-> can_find_home,
   park                        |-> can_park,
   setpark                     |-> can_set_park,
   pulseguide                  |-> can_pulse_guide,
   slewtoaltaz                 |-> can_slew_altaz,
   slewtoaltazasync            |-> can_slew_altaz_async,
   slewtocoordinates           |-> can_slew,
   slewtocoordinatesasync      |-> can_slew_async,
   slewtotarget                |-> can_slew,
   slewtotargetasync           |-> can_slew_async,
   synctoaltaz                 |-> can_sync_altaz,
   synctocoordinates           |-> can_sync,
   synctotarget                |-> can_sync,
   unpark                      |-> can_unpark]

CapOps == DOMAIN CapTable \cup {"moveaxis"}

HasBit(mask) == (flags \div mask) % 2 = 1

AxisOk(c) == c.op = "moveaxis" => c.args[1] \in {0, 1, 2}

\* the capability of the call c is present (for moveaxis: of an axis 0..2)
CapOk(c) ==
  IF c.op = "moveaxis"
  THEN \/ c.args[1] = 0 /\ HasBit(can_move_axis_0)
       \/ c.args[1] = 1 /\ HasBit(can_move_axis_1)
       \/ c.args[1] = 2 /\ HasBit(can_move_axis_2)
  ELSE c.op \in DOMAIN CapTable => HasBit(CapTable[c.op])

InRange(x, lo, hi) == lo <= x /\ x <= hi

\* the range-checked setters and their ranges
SetterOps ==
  {"put_siteelevation", "put_sitelatitude", "put_sitelongitude",
   "put_slewsettletime", "put_targetdeclination", "put_targetrightascension",
   "put_trackingrate"}

SetterOk(c) ==
  CASE c.op = "put_siteelevation" -> InRange(c.args[1], -300 * Milli, 10000 * Milli)
    [] c.op = "put_sitelatitude" -> InRange(c.args[1], -90 * Milli, 90 * Milli)
    [] c.op = "put_sitelongitude" -> InRange(c.args[1], -180 * Milli, 180 * Milli)
    [] c.op = "put_slewsettletime" -> c.args[1] >= 0
    [] c.op = "put_targetdeclination" -> InRange(c.args[1], -90 * Milli, 90 * Milli)
    [] c.op = "put_targetrightascension" -> InRange(c.args[1], 0, 24 * Milli)
    [] c.op = "put_trackingrate" -> InRange(c.args[1], 0, 3)
    [] OTHER -> TRUE

\* equatorial and horizontal coordinates in range: the arguments are
\* <<rightascension, declination>>, resp. <<altitude, azimuth>>
CoordOps == {"slewtocoordinates", "slewtocoordinatesasync", "synctocoordinates"}

AltAzOps == {"slewtoaltaz", "slewtoaltazasync", "synctoaltaz"}

CoordOk(c) ==
  c.op \in CoordOps =>
    InRange(c.args[1], 0, 24 * Milli) /\ InRange(c.args[2], -90 * Milli, 90 * Milli)

AltAzOk(c) ==
  c.op \in AltAzOps =>
    InRange(c.args[2], 0, 360 * Milli) /\ InRange(c.args[1], -90 * Milli, 90 * Milli)

RateOk(c) ==
  c.op = "moveaxis" => c.args[2] > -9 * Milli /\ c.args[2] < 9 * Milli

\* the mount is parked, as the driver reports it
AtPark == get_atpark.ret.has_value /\ get_atpark.ret.value

\* every precondition of the call c holds
PreconditionsHold(c) ==
  /\ is_connected
  /\ CapOk(c)
  /\ c.op = "synctotarget" => ~AtPark
  /\ AxisOk(c) /\ RateOk(c) /\ SetterOk(c) /\ CoordOk(c) /\ AltAzOk(c)

\* C1: a gated operation with a violated precondition (connected, capability,
\* not parked, argument range) never calls its driver method: no wire
\* command is sent and the driver state does not change.
C1_ViolatedGateNeverReachesDriver ==
  [][(last'.op \in FacadeOps /\ ~PreconditionsHold(last'))
       => (last'.calls = 0 /\ last'.wire = <<>> /\ UNCHANGED drv)]_vars

\* C2 as stated: a capability-gated operation whose bit is 0 returns
\* not_implemented whatever the device state and the arguments.
C2_AbsentCapabilityAlwaysNotImplemented ==
  (last.op \in CapOps /\ AxisOk(last) /\ ~CapOk(last))
    => Fails(last.res, not_implemented)

\* C2 amended: on a connected device, a capability-gated operation whose bit
\* is 0 (for moveaxis: with an axis in 0..2; for synctotarget: not parked)
\* returns not_implemented whatever its other arguments, and the driver is
\* not called.
C2_AbsentCapabilityWhenConnected ==
  (is_connected /\ last.op \in CapOps /\ AxisOk(last) /\ ~CapOk(last)
     /\ (last.op = "synctotarget" => ~AtPark))
    => (Fails(last.res, not_implemented) /\ last.calls = 0)

\* park was refused on a connected mount that lacks can_park
C2_Witness ==
  /\ is_connected /\ last.op = "park" /\ ~HasBit(can_park)
  /\ Fails(last.res, not_implemented)

C4_PresentCapabilityReturnsDriverResult ==
  (last.op \in CapOps /\ PreconditionsHold(last))
    => (last.calls = 1 /\ last.res = last.ret)

\* the witness of the applied visit: all results given
AllOk(ts) == \A i \in 1..Len(ts) : ~is_error(ts[i])

\* the error of the leftmost result that holds one
Leftmost(ts) ==
  ts[CHOOSE i \in 1..Len(ts) :
       is_error(ts[i]) /\ \A j \in 1..(i - 1) : ~is_error(ts[j])].error

\* C5 as stated: visit returns Ok, calling f exactly once, if and only if
\* every result is Ok; otherwise f is not called and the leftmost error is
\* returned verbatim.
C5_VisitOkIffAllOk ==
  vin.done =>
    /\ (vin.res.has_value /\ vin.calls = 1) <=> AllOk(vin.ts)
    /\ ~AllOk(vin.ts) => (vin.calls = 0 /\ Fails(vin.res, Leftmost(vin.ts)))

\* C5 amended: visit calls f exactly once if and only if every result is
\* Ok, and then returns Ok whenever f returns a plain value; otherwise f is
\* not called and the leftmost error is returned verbatim.
C5_VisitCallsIffAllOk ==
  vin.done =>
    /\ vin.calls = 1 <=> AllOk(vin.ts)
    /\ vin.calls \in {0, 1}
    /\ (AllOk(vin.ts) /\ vin.fn.kind = "plain") => vin.res.has_value
    /\ ~AllOk(vin.ts) => (vin.calls = 0 /\ Fails(vin.res, Leftmost(vin.ts)))

\* visit was applied to an Ok result followed by two different errors
C5_Witness ==
  /\ vin.done /\ Len(vin.ts) = 3
  /\ ~is_error(vin.ts[1])
  /\ Fails(vin.ts[2], not_implemented) /\ Fails(vin.ts[3], invalid_value)
  /\ Fails(vin.res, not_implemented) /\ vin.calls = 0

\* C6: moveaxis returns the error of its first violated gate in the order
\* connected, 0 <= axis <= 2, can_move_axis[axis], -9 < rate < 9.
C6_MoveAxisGateOrder ==
  last.op = "moveaxis" =>
    /\ ~is_connected => Fails(last.res, not_connected)
    /\ (is_connected /\ ~AxisOk(last)) => Fails(last.res, invalid_value)
    /\ (is_connected /\ AxisOk(last) /\ ~CapOk(last))
         => Fails(last.res, not_implemented)
    /\ (is_connected /\ AxisOk(last) /\ CapOk(last) /\ ~RateOk(last))
         => Fails(last.res, invalid_value)
    /\ ~PreconditionsHold(last) => last.calls = 0

\* moveaxis on a connected mount with an absent axis capability and a rate
\* out of range: the capability gate answers
C6_Witness ==
  /\ is_connected /\ last.op = "moveaxis"
  /\ AxisOk(last) /\ ~CapOk(last) /\ ~RateOk(last)
  /\ Fails(last.res, not_implemented)

\* C7: on a connected mount with the capability, slewtocoordinates and
\* slewtocoordinatesasync return invalid_value without calling the driver
\* when right ascension is outside [0, 24] or declination outside [-90, 90].
C7_SlewToCoordinatesRejectsOutOfRange ==
  (is_connected /\ last.op \in {"slewtocoordinates", "slewtocoordinatesasync"}
     /\ CapOk(last) /\ ~CoordOk(last))
    => (Fails(last.res, invalid_value) /\ last.calls = 0)

\* C8: on a connected mount with the capability, slewtoaltaz and
\* slewtoaltazasync return invalid_value without calling the driver when
\* azimuth is outside [0, 360] or altitude outside [-90, 90].
C8_SlewToAltAzRejectsOutOfRange ==
  (is_connected /\ last.op \in {"slewtoaltaz", "slewtoaltazasync"}
     /\ CapOk(last) /\ ~AltAzOk(last))
    => (Fails(last.res, invalid_value) /\ last.calls = 0)

\* C9: on a connected mount every range-checked setter rejects a value out
\* of its range with invalid_value (0x401, "Invalid value") and leaves the
\* driver state unchanged.
C9_SettersRejectOutOfRange ==
  [][(is_connected /\ last'.op \in SetterOps /\ ~SetterOk(last'))
       => /\ ~last'.res.has_value
          /\ last'.res.error.error_number = 1025
          /\ last'.res.error.error_message = "Invalid value"
          /\ last'.calls = 0
          /\ UNCHANGED drv]_vars

\* siteelevation 12000 was refused on a connected mount
C9_Witness ==
  /\ is_connected /\ last.op = "put_siteelevation"
  /\ last.args[1] = 12000 * Milli
  /\ Fails(last.res, invalid_value)

TargetOf(op) ==
  IF op = "get_targetdeclination" THEN written.targetdeclination
  ELSE written.targetrightascension

\* C10: on a connected mount, reading a target returns value_not_set if and
\* only if it was never written, and the most recently written value
\* otherwise.
C10_TargetReadsBackLastWrite ==
  (is_connected /\ last.op \in {"get_targetdeclination", "get_targetrightascension"})
    => /\ Fails(last.res, value_not_set) <=> ~TargetOf(last.op).set
       /\ TargetOf(last.op).set
            => last.res = Ok(json_value(index_float, TargetOf(last.op).value))

\* targetdeclination was read back as -45 on a mount that had been slewed
\* to declination 90 before
C10_Witness ==
  /\ is_connected /\ last.op = "get_targetdeclination"
  /\ last.res = Ok(json_value(index_float, -45 * Milli))
  /\ written.targetdeclination = Written(-45 * Milli)
  /\ sim.target_declination = 90 * Milli

\* C11: within one mount the NexStar transactions are totally ordered: while
\* one handler thread is between writing its request and the end of the read
\* of its response no other thread has written to or is reading from the
\* line, and every response handed back to a thread holds only bytes that
\* answer that thread's own request.
C11_TransactionsTotallyOrdered ==
  /\ Cardinality({t \in Threads : thread[t].pc = "read"}) <= 1
  /\ \A i \in 1..Len(history) :
       \A k \in 1..Len(history[i].out) :
         history[i].out[k].to = history[i].of

C13_TransactionIdsUnique ==
  /\ \A i, j \in 1..Len(history) : i # j => history[i].id # history[j].id
  /\ \A t, u \in Threads :
       (t # u /\ thread[t].pc = "handle" /\ thread[u].pc = "handle")
         => thread[t].js_out.ServerTransactionID
              # thread[u].js_out.ServerTransactionID
  /\ \A t \in Threads : thread[t].pc = "handle" =>
       \E i \in 1..Len(history) :
         /\ history[i].of = t
         /\ history[i].id = thread[t].js_out.ServerTransactionID

\* two threads are inside render at the same time, each with its id
C13_Witness ==
  \A t \in Threads : thread[t].pc = "handle"

\* the request that thread 1 has rendered to its end, past the parsing of
\* the two client ids
Answered ==
  /\ thread[1].pc = "idle"
  /\ thread[1].req.operation # ""
  /\ ScanId(thread[1].req.args, "ClientTransactionID").count = 1
  /\ ScanId(thread[1].req.args, "ClientID").count = 1

\* str spells an integer: an optional sign, then digits and nothing else
IsInteger(str) ==
  LET digits == IF str # <<>> /\ Head(str) = "-" THEN Tail(str) ELSE str
  IN  digits # <<>> /\ \A i \in 1..Len(digits) : IsDigit(digits[i])

\* C14: a request whose device_id part is not an integer in [0, N-1], N the
\* number of registered devices, is answered 404 and reads no device.
C14_BadDeviceIdIsNotFound ==
  (/\ Answered
   /\ ~(/\ IsInteger(thread[1].req.device_id)
        /\ parse_int(thread[1].req.device_id, -1) \in 0..(NDevices - 1)))
    => /\ thread[1].resp.status = 404
       /\ thread[1].handled.device = {}
       /\ ~thread[1].handled.called

UnknownType == thread[1].req.device_type # "telescope"

OtherMethod == thread[1].req.method \notin {"GET", "PUT"}

AbsentOperation ==
  \/ thread[1].req.method = "GET" /\ thread[1].req.operation \notin get_operations
  \/ thread[1].req.method = "PUT" /\ thread[1].req.operation \notin put_operations

\* the dispatcher turned the request down: no handler ran, no envelope
Rejected(status) ==
  /\ thread[1].resp.status = status
  /\ ~thread[1].handled.called
  /\ ~thread[1].resp.envelope

\* C15 (as stated): an unknown device type or an operation absent from the
\* table of the request method is answered 404, a method other than GET and
\* PUT is answered 400; no handler runs and no envelope is produced.
C15_DispatcherFailures ==
  Answered =>
    /\ (UnknownType \/ AbsentOperation) => Rejected(404)
    /\ OtherMethod => Rejected(400)

\* the device number passes the test that handle_get makes of it
IdAccepted ==
  With(parse_int(thread[1].req.device_id, -1), LAMBDA device_id :
    ~(device_id < 0 \/ device_id > NDevices))

\* C15 (amended): the same, the method being looked at last: a method other
\* than GET and PUT is answered 400 when device type and device number were
\* accepted, and 404 when one of them was not.
C15_DispatcherFailuresInOrder ==
  Answered =>
    /\ (UnknownType \/ AbsentOperation) => Rejected(404)
    /\ OtherMethod =>
         IF ~UnknownType /\ IdAccepted THEN Rejected(400) ELSE Rejected(404)

\* a DELETE of a known device was answered 400
C15_Witness ==
  /\ Answered
  /\ OtherMethod
  /\ ~UnknownType
  /\ IdAccepted
  /\ thread[1].resp.status = 400

\* C16: the envelope mirrors what the handler returned, with HTTP 200: for
\* Ok(v) Value = v, ErrorNumber = 0 and ErrorMessage = ""; for an error e
\* Value = null, ErrorNumber = e.code and ErrorMessage = e.message; and in
\* both cases the two client ids and the ServerTransactionID of the request.
C16_EnvelopeMirrorsOutcome ==
  (Answered /\ thread[1].handled.called /\ ~thread[1].handled.crashed) =>
    With(thread[1].handled.res, LAMBDA res :
    With(thread[1].resp.js, LAMBDA js :
      /\ thread[1].resp.status = 200
      /\ thread[1].resp.envelope
      /\ js.has_Value
      /\ js.Value = res.value
      /\ js.ErrorNumber = res.error.error_number
      /\ js.ErrorMessage = res.error.error_message
      /\ js.ClientID = ScanId(thread[1].req.args, "ClientID").value
      /\ js.ClientTransactionID
           = ScanId(thread[1].req.args, "ClientTransactionID").value
      /\ js.ServerTransactionID = history[Len(history)].id))

\* C17: an exchange whose response is shorter than the expected length, or
\* does not end in '#', makes the driver method that made it return
\* invalid_operation, and no value.
C17_FaultyExchangeIsInvalidOperation ==
  (last.calls = 1 /\ fd # "none") =>
    /\ ~last.res.has_value
    /\ last.res.error = invalid_operation

\* slewtocoordinatesasync was accepted
SlewAccepted == last.op = "slewtocoordinatesasync" /\ last.res.has_value

\* after an accepted slew, a poll of slewing answered false
ObservedIdle ==
  /\ written.targetdeclination.set
  /\ last.op = "get_slewing"
  /\ last.res = Ok(json_value(index_bool, BoolVal(FALSE)))

\* one 16-bit unit of the wire, in thousandths of a degree, rounded up
WireUnit == NexNum \div NexDen + 1

\* a value that crossed the wire twice (the goto and the read) is within two
\* units of what was sent: each conversion truncates once
NearTarget(read, target) == Abs(read - target) <= 2 * WireUnit

\* a poll of a coordinate answered the commanded target
ReadsTarget ==
  /\ (last.op = "get_rightascension" /\ last.res.has_value)
       => NearTarget(last.res.value.n, targetrightascension)
  /\ (last.op = "get_declination" /\ last.res.has_value)
       => NearTarget(last.res.value.n, targetdeclination)

\* C19: after slewtocoordinatesasync is accepted, repeated polling eventually
\* observes slewing = false, and from that poll on rightascension and
\* declination read the commanded target.
C19_SlewCompletesAtTarget ==
  /\ SlewAccepted ~> ObservedIdle
  /\ [](ObservedIdle => []ReadsTarget)

\* the 8 bytes the last moveaxis put on the wire
MoveAxisBytes == last.wire[1]

MoveAxisSent ==
  /\ last.op = "moveaxis"
  /\ last.res.has_value
  /\ Len(last.wire) = 1

\* C18: moveaxis(0, 1.0) transmits 'P', 3, 16, 6, 0x38, 0x40, 0, 0; a
\* positive rate goes out with command byte 6 and a negative one with 7,
\* axis 0 to device 16 and axis 1 to device 17, the magnitude
\* abs(rate * 3600 * 4) big-endian in the two bytes that follow.
C18_MoveAxisBytes ==
  MoveAxisSent =>
    /\ MoveAxisBytes = <<"P", 3,
                         IF last.args[1] = 0 THEN 16 ELSE 17,
                         IF last.args[2] > 0 THEN 6 ELSE 7,
                         (Abs(last.args[2] * 3600 * 4) \div Milli) \div 256,
                         (Abs(last.args[2] * 3600 * 4) \div Milli) % 256,
                         0, 0>>
    /\ last.args = <<0, 1 * Milli>>
         => MoveAxisBytes = <<"P", 3, 16, 6, 56, 64, 0, 0>>

\* the mount has reached the declination it was sent to, and a poll read it
DeclinationReadAtTarget ==
  /\ written.targetdeclination.set
  /\ sim.state = "no_op"
  /\ last.op = "get_declination"
  /\ last.res.has_value

\* C20: a declination between -90 and +90 degrees, encoded for the wire and
\* decoded from the reply of the mount that reached it, is read back as
\* itself to within the precision of the wire, negative values included.
C20_DeclinationRoundTrip ==
  DeclinationReadAtTarget =>
    NearTarget(last.res.value.n, targetdeclination)

\* C21: the connection flag is false at the start; every put_connected(b)
\* returns Ok and leaves the flag equal to b, and when the flag already
\* equals b it changes nothing of the device.
C21_ConnectIsIdempotent ==
  /\ is_connected = FALSE
  /\ [][last'.op = "put_connected" =>
          /\ last'.res = Ok(json_null)
          /\ last'.args = <<BoolVal(is_connected')>>
          /\ last'.args = <<BoolVal(is_connected)>> =>
                UNCHANGED <<is_connected, flags, targetdeclination,
                            targetrightascension, sim, now, written>>]_vars

\* the device was asked to connect and is connected
C21_Witness ==
  /\ last.op = "put_connected"
  /\ last.args = <<BoolVal(TRUE)>>
  /\ is_connected

\* a capability getter answered
CapabilityRead == last.op \in CapGetters

\* C22: a capability getter answers the bit of the capability word given at
\* construction, connected or not: that word never changes, every getter
\* returns its bit of it with no error, and GET canpark on a mount without
\* can_park returns false.
C22_CapabilitiesAreConstant ==
  /\ [][flags' = flags]_vars
  /\ [](CapabilityRead =>
          /\ last.res = Ok(json_value(index_bool,
                                       BoolVal((flags \div CapOf(last.op)) % 2 = 1)))
          /\ (last.op = "get_canpark" /\ flags = SomeFlags) =>
                last.res = Ok(json_value(index_bool, BoolVal(FALSE))))

\* canpark was asked of a mount without can_park that had been connected,
\* given a target, and disconnected again
C22_Witness ==
  /\ flags = SomeFlags
  /\ ~is_connected
  /\ written.targetdeclination.set
  /\ last.op = "get_canpark"
  /\ last.res = Ok(json_value(index_bool, BoolVal(FALSE)))

\* map or flat_map was applied to a result that holds a value
AppliedToOk(op) == vin.done /\ vin.op = op /\ vin.ts[1].has_value

\* map or flat_map was applied to a result that holds an error
AppliedToErr == vin.done /\ ~vin.ts[1].has_value

\* what the callable returned, as a result without nesting
Unnested(fn) ==
  IF fn.ret.has_value
  THEN Returned(TRUE, Plain(fn.ret.value), no_error, 1)
  ELSE Returned(FALSE, NoPayload, fn.ret.error, 1)

\* C23: Ok(x).map(f) is Ok(f(x)), a result returned by f being held as the
\* value and not flattened; Ok(x).flat_map(f) is f(x) itself; on Err(e) both
\* return Err(e) and f is not invoked.
C23_ResultLaws ==
  /\ AppliedToOk("map") =>
        vin.res = Returned(TRUE,
                           IF vin.fn.kind = "plain" THEN Plain(vin.fn.ret)
                           ELSE Nested(vin.fn.ret),
                           no_error, 1)
  /\ AppliedToOk("flat_map") => vin.res = Unnested(vin.fn)
  /\ AppliedToErr =>
        vin.res = Returned(FALSE, NoPayload, vin.ts[1].error, 0)

\* a request for one of the operations that read a field was answered
FieldRequested ==
  thread[1].req.operation \in {"canmoveaxis", "siteelevation", "connected"}

\* the field the answered request needs
Needed == FieldOf(thread[1].req.operation)

\* the places of the arguments whose key is the name of the needed field,
\* letter for letter, and in any letter case
ExactPlaces ==
  {n \in 1..Len(thread[1].req.args) : thread[1].req.args[n][1] = Needed.name}

AnyCasePlaces ==
  {n \in 1..Len(thread[1].req.args) :
     equals_insentive(thread[1].req.args[n][1], Needed.name)}

\* the error of a field that is not among the arguments
FieldNotFound ==
  Render(Err(custom_error("Field '" \o Joined(Needed.name) \o "' not found")),
         index_nullptr)

\* the error of a field whose value does not decode
FieldInvalid ==
  Render(Err(custom_error("Invalid '" \o Joined(Needed.name) \o "' field")),
         index_nullptr)

\* C24: keys are matched without regard to letter case for GET and letter
\* for letter for PUT: a GET whose key differs from the field name only in
\* case supplies the field, a PUT whose key differs only in case does not.
C24_KeyCaseByMethod ==
  (FieldRequested /\ thread[1].resp.envelope) =>
    /\ (thread[1].req.method = "GET" /\ AnyCasePlaces # {})
         => thread[1].handled.res # FieldNotFound
    /\ (thread[1].req.method = "PUT" /\ ExactPlaces # {})
         => thread[1].handled.res # FieldNotFound
    /\ (thread[1].req.method = "PUT" /\ ExactPlaces = {})
         => thread[1].handled.res = FieldNotFound

\* a GET with the key in lower case reached the telescope, and so the field
\* was read
C24_Witness ==
  /\ thread[1].req.method = "GET"
  /\ thread[1].req.args = << <<(<<"a", "x", "i", "s">>), (<<"0">>)>> >>
  /\ thread[1].handled.called
  /\ thread[1].handled.res.has_value

\* the text that the needed field is read from: the value of the last
\* argument whose key matches under the method
TextRead ==
  With(IF thread[1].req.method = "GET" THEN AnyCasePlaces ELSE ExactPlaces,
       LAMBDA places :
         thread[1].req.args[CHOOSE n \in places : \A m \in places : m <= n][2])

FieldMissing ==
  IF thread[1].req.method = "GET" THEN AnyCasePlaces = {} ELSE ExactPlaces = {}

\* the text holds no true or false, or starts with no digit
Undecodable(type, text) ==
  IF type = "bool"
  THEN /\ text # <<"t", "r", "u", "e">>
       /\ text # <<"F", "a", "l", "s", "e">>
  ELSE text = <<>> \/ ~IsDigit(Head(text))

\* the response is the envelope of the error, sent with status 200, and the
\* telescope was not reached
ErrorInEnvelope(res) ==
  /\ thread[1].handled.res = res
  /\ ~thread[1].handled.called
  /\ last.calls = 0
  /\ thread[1].resp.status = 200
  /\ thread[1].resp.js.ErrorNumber = 1280
  /\ thread[1].resp.js.ErrorMessage = res.error.error_message

\* C25: a handler whose field is missing returns the error Field '<name>' not
\* found, one whose field does not decode returns Invalid '<name>' field;
\* either is answered in the envelope with status 200 and the telescope is
\* not called.
C25_FieldErrors ==
  (FieldRequested /\ thread[1].resp.envelope) =>
    /\ FieldMissing => ErrorInEnvelope(FieldNotFound)
    /\ (~FieldMissing /\ Undecodable(Needed.type, TextRead))
         => ErrorInEnvelope(FieldInvalid)

\* PUT siteelevation with SiteElevation=x was answered
C25_Witness ==
  /\ thread[1].req.operation = "siteelevation"
  /\ thread[1].req.args = << <<siteelevation_f.name, (<<"x">>)>> >>
  /\ thread[1].resp.status = 200
  /\ thread[1].resp.js.ErrorMessage = "Invalid 'SiteElevation' field"

-----------------------------------------------------------------------------
(* The simulator in motion *)

\* this step took the simulator out of the moving state
LeftMoving == sim.state = "moving" /\ sim'.state # "moving"

\* this step sent the command with opcode c
Commanded(c) == last'.wire # <<>> /\ last'.wire[1][1] = c

\* this step sent a slew-variable pass-through with rate zero
ZeroRate == Commanded("P") /\ last'.wire[1][5] = 0 /\ last'.wire[1][6] = 0

\* C26, as stated: once the simulator is moving it stays moving across
\* every wire command other than a cancel ('M') or a zero-rate pass-through;
\* position reads, status reads and gotos ('R') do not take it out of moving.
C26_MovingUntilStopped ==
  [][LeftMoving => Commanded("M") \/ ZeroRate]_vars

\* C26, amended: once the simulator is moving it stays moving across every
\* wire command other than a cancel ('M'), a zero-rate pass-through, or a goto
\* ('R'), which puts it in the slewing state; position reads and status reads
\* do not take it out of moving.
C26_MovingUntilStoppedOrGoto ==
  [][LeftMoving =>
       \/ Commanded("M") /\ sim'.state = "no_op"
       \/ ZeroRate /\ sim'.state = "no_op"
       \/ Commanded("R") /\ sim'.state = "slewing"]_vars

\* the mount, moving for a second, was asked where it is and is moving still
C26_Witness ==
  /\ sim.state = "moving"
  /\ last.op \in {"get_rightascension", "get_declination", "get_slewing"}
  /\ last.calls = 1
  /\ sim.last_ts > 0
  /\ sim.declination # 0

\* the speed factor of simulator_protocol::step, in quarters
SpeedFactor4(dist) ==
  IF dist <= 5 * Milli THEN 1
  ELSE IF dist <= 10 * Milli THEN 2
  ELSE IF dist <= 20 * Milli THEN 3
  ELSE 4

\* clamp(x, -9 degrees, +9 degrees)
Clamp9(x) ==
  IF x < -9 * Milli THEN -9 * Milli
  ELSE IF x > 9 * Milli THEN 9 * Milli
  ELSE x

\* one axis, further than the snap distance from its target, went from actual
\* to moved by the clamped advance, which is at most 9 degrees per second
ClampedAdvance(target, actual, moved, delta_time) ==
  Abs(target - actual) > Milli \div 10 =>
    /\ moved = actual
         + Clamp9(TruncDiv((target - actual) * SpeedFactor4(Abs(target - actual)), 4))
           * delta_time
    /\ Abs(moved - actual) <= 9 * Milli * delta_time

\* C27: in the slewing state each step changes each axis by
\* clamp(diff * s, -9, +9) * dt, so that no axis changes by more than 9 * dt
\* degrees in one step, whether diff is positive or negative.
C27_SlewStepClamped ==
  [][sim.state = "slewing" =>
       /\ ClampedAdvance(sim.target_rightascension, sim.rightascension,
                         sim'.rightascension, now - sim.last_ts)
       /\ ClampedAdvance(sim.target_declination, sim.declination,
                         sim'.declination, now - sim.last_ts)]_vars

\* this step sent no command that sets the mount in motion
NoMotionCommand ==
  \/ sim' = sim
  \/ last'.op \notin {"moveaxis", "slewtocoordinatesasync"}

\* what a position read reports of the angle the simulator holds
Reported(angle) == nexstar_to_degree(degree_to_nexstar(angle, FALSE))

\* C30: abortslew commands 'M'; after it succeeded the simulator is idle,
\* and as long as no motion command is issued it stays idle, every read of
\* slewing answers false, and the position, held and reported, stays the one
\* the mount had when the cancel was processed.
C30_AbortSlewHolds ==
  [][/\ (last'.op = "abortslew" /\ last'.calls = 1 /\ last' # last) =>
           /\ last'.wire = << <<"M">> >>
           /\ last'.res = Ok(json_null)
           /\ sim'.state = "no_op"
           /\ sim'.target_rightascension = sim'.rightascension
           /\ sim'.target_declination = sim'.declination
     /\ (sim.state = "no_op" /\ NoMotionCommand) =>
           /\ sim'.state = "no_op"
           /\ sim'.rightascension = sim.rightascension
           /\ sim'.declination = sim.declination
           /\ (last'.op = "get_slewing" /\ last'.calls = 1) =>
                 last'.res = Ok(json_value(index_bool, BoolVal(FALSE)))
           /\ (last'.op = "get_rightascension" /\ last'.res.has_value) =>
                 last'.res = Ok(json_value(index_float,
                                           Reported(sim.rightascension) \div 15))
           /\ (last'.op = "get_declination" /\ last'.res.has_value) =>
                 last'.res = Ok(json_value(index_float,
                                           Reported(sim.declination)))]_vars

\* a slew to 6 h was aborted on its way, at 9 degrees, and the mount is idle
C30_Witness ==
  /\ last.op = "abortslew"
  /\ last.res = Ok(json_null)
  /\ sim.state = "no_op"
  /\ targetrightascension = 6 * Milli
  /\ sim.rightascension = 9 * Milli
  /\ sim.target_rightascension = 9 * Milli

-----------------------------------------------------------------------------
(* The rate bytes of the slew-variable command *)

\* abs(rate * 3600 * 4), in whole quarter-arcseconds per second
RateMagnitude(rate) == Abs(rate * 3600 * 4) \div Milli

\* the largest magnitude that two bytes hold
MaxRate16 == 256 * 256 - 1

\* C28: the rate magnitude abs(rate * 3600 * 4) is clamped to 16 bits before
\* it is sent: hi and lo are the two bytes of min(magnitude, 65535), so every
\* admitted rate whose magnitude is above 65535 is sent as hi = 0xFF,
\* lo = 0xFF.
C28_RateClampedTo16Bits ==
  (last.op = "moveaxis" /\ last.calls = 1) =>
    /\ last.wire[1][5] = Min(RateMagnitude(last.args[2]), MaxRate16) \div 256
    /\ last.wire[1][6] = Min(RateMagnitude(last.args[2]), MaxRate16) % 256

-----------------------------------------------------------------------------
(* The clock of the simulator *)

\* the last exchange with the mount was a successful write of its clock:
\* sim.last_ts is then the time of that write
ClockWritten ==
  /\ last.op = "put_utcdate"
  /\ last.calls = 1
  /\ last.res = Ok(json_null)

\* this step read the clock of the mount
ClockRead == last'.op = "get_utcdate" /\ last'.calls = 1

\* C29: the time that 'h' returns is the time stored by the most recent
\* successful 'H' plus the wall-clock time elapsed since that write: a read
\* that follows a write returns the written time plus the time since the
\* write.
C29_ClockRunsFromLastWrite ==
  [][(ClockWritten /\ ClockRead) =>
       last'.res = Ok(json_value(index_string,
                                 last.args[2] + (now - sim.last_ts)))]_vars

-----------------------------------------------------------------------------
(* The target of a slew *)

\* the driver's slewtocoordinatesasync was the last call
SlewCalled == last.op = "slewtocoordinatesasync" /\ last.calls = 1

\* C31: slewtocoordinatesasync(ra, dec) stores (ra, dec) as the target
\* before it issues the goto: after the call the driver holds ra and dec,
\* and targetrightascension reads ra and targetdeclination reads dec,
\* whether the goto command completed or not.
C31_SlewStoresTarget ==
  /\ [](SlewCalled =>
          /\ targetrightascension = last.args[1]
          /\ targetdeclination = last.args[2])
  /\ [][SlewCalled =>
          /\ last'.op = "get_targetrightascension"
                => last'.res = Ok(json_value(index_float, last.args[1]))
          /\ last'.op = "get_targetdeclination"
                => last'.res = Ok(json_value(index_float, last.args[2]))]_vars

\* a slew to 1 h, -3 degrees whose goto failed on the line left both
\* targets set
C31_Witness ==
  /\ SlewCalled
  /\ Fails(last.ret, invalid_operation)
  /\ last.args = <<1 * Milli, -3 * Milli>>
  /\ targetrightascension = 1 * Milli
  /\ targetdeclination = -3 * Milli

-----------------------------------------------------------------------------
(* The system calls of the serial line *)

\* the last call of a driver method met a failing system call
SyscallFailed == last.calls = 1 /\ fd.fault # "none"

\* C32: on any system-call failure, of open, of write or of read, the
\* serial transport returns -1, and the calling driver operation returns
\* invalid_operation.
C32_SyscallFailureIsInvalidOperation ==
  SyscallFailed =>
    /\ fd.n = -1
    /\ Fails(last.res, invalid_operation)

-----------------------------------------------------------------------------
(* Tracking *)

\* the driver's get_tracking, resp. put_tracking, was the last call
TrackingRead == last.op = "get_tracking" /\ last.calls = 1

TrackingSet == last.op = "put_tracking" /\ last.calls = 1

\* C33: get_tracking returns true exactly when the tracking mode of the
\* mount is not off; put_tracking writes eq_north for true and off for
\* false; so get_tracking after put_tracking(b) returns b.
C33_TrackingRoundTrip ==
  /\ [](TrackingRead =>
          last.res = Ok(json_value(index_bool, BoolVal(sim.tracking_mode # off))))
  /\ [](TrackingSet =>
          /\ last.wire = << <<"T", IF last.args[1] = BoolVal(TRUE)
                                  THEN eq_north ELSE off>> >>
          /\ sim.tracking_mode = IF last.args[1] = BoolVal(TRUE)
                                 THEN eq_north ELSE off)
  /\ [][(TrackingSet /\ last'.op = "get_tracking" /\ last'.calls = 1) =>
          last'.res = Ok(json_value(index_bool, last.args[1]))]_vars

\* a mount left in alt_azm mode read as tracking, a second after the start
C33_Witness ==
  /\ TrackingRead
  /\ sim.tracking_mode = alt_azm
  /\ last.res = Ok(json_value(index_bool, BoolVal(TRUE)))
  /\ sim.last_ts > 0

-----------------------------------------------------------------------------
(* The evaluation of the gates *)

\* the last request made the driver method m run while its gates were
\* evaluated
GateCalled(m) == \E i \in 1..Len(history) : history[i] = m

\* C34: the gates short-circuit: once an earlier gate of an operation has
\* failed, the later ones are not evaluated.  A synctotarget on a mount that
\* is not connected does not call the driver's get_atpark, and a moveaxis
\* with an axis outside 0..2 does not evaluate get_canmoveaxis(axis).
C34_GatesShortCircuit ==
  /\ (last.op = "synctotarget" /\ Fails(last.res, not_connected))
        => ~GateCalled("get_atpark")
  /\ (last.op = "moveaxis" /\ is_connected
        /\ (last.args[1] < 0 \/ last.args[1] > 2))
        => ~GateCalled("get_canmoveaxis")

-----------------------------------------------------------------------------
(* The slew-variable command, encoded and decoded *)

\* what slew_variable_command_t::parse makes of the command of the last
\* moveaxis
Decoded == slew_variable_parse(last.wire[1])

\* C35: decoding the slew-variable command that the encoder produced gives
\* the same axis and the same signed rate, to a quarter of an arcsecond per
\* second, and the simulator takes that rate for the axis: a positive rate
\* moves the axis in the positive direction and a negative one in the
\* negative direction.
C35_SlewVariableRoundTrip ==
  MoveAxisSent =>
    /\ Decoded.parsed
    /\ Decoded.axis = last.args[1]
    /\ Abs(Decoded.rate - last.args[2]) <= 1
    /\ sim.slew_rate[last.args[1] + 1] = Decoded.rate
    /\ (last.args[2] > 0) = (sim.slew_rate[last.args[1] + 1] > 0)

-----------------------------------------------------------------------------
(* One axis stopped while the other moves *)

\* the index in slew_rate of the axis that a moveaxis on axis leaves alone
OtherAxis(axis) == IF axis = 0 THEN 2 ELSE 1

\* this step is a moveaxis at rate zero, made while the simulator is moving
\* and the other axis has a rate that is not zero
StoppedOneAxis ==
  /\ sim.state = "moving"
  /\ last'.op = "moveaxis"
  /\ last'.calls = 1
  /\ Commanded("P")
  /\ last'.args[2] = 0
  /\ sim.slew_rate[OtherAxis(last'.args[1])] # 0

\* C36: a moveaxis at rate zero on one axis stops that axis only: when the
\* other axis still has a commanded rate that is not zero, the simulator
\* stays in the moving state and the other axis keeps its rate.
C36_ZeroRateStopsOneAxis ==
  [][StoppedOneAxis =>
       /\ sim'.state = "moving"
       /\ sim'.slew_rate[last'.args[1] + 1] = 0
       /\ sim'.slew_rate[OtherAxis(last'.args[1])]
            = sim.slew_rate[OtherAxis(last'.args[1])]]_vars

-----------------------------------------------------------------------------
(* The approach of the target *)

\* one axis went from actual to moved no further from target than it was,
\* and not beyond target
Approached(target, actual, moved) ==
  /\ Abs(target - moved) <= Abs(target - actual)
  /\ target >= actual => moved <= target
  /\ target <= actual => moved >= target

\* C37: during a slew no step of the simulator increases the distance of an
\* axis to its target or moves the axis past the target, whatever the time
\* between two commands.
C37_SlewNeverOvershoots ==
  [][sim.state = "slewing" =>
       /\ Approached(sim.target_rightascension, sim.rightascension,
                     sim'.rightascension)
       /\ Approached(sim.target_declination, sim.declination,
                     sim'.declination)]_vars

-----------------------------------------------------------------------------
(* A slew to a target that was never set *)

\* slewtotargetasync was the last request, on a connected mount that can
\* slew asynchronously, and one of the two targets was never written
SlewToUnsetTarget ==
  /\ last.op = "slewtotargetasync"
  /\ is_connected
  /\ get_can(can_slew_async) = Ok(TRUE)
  /\ (~written.targetrightascension.set \/ ~written.targetdeclination.set)

\* C38: slewtotargetasync on a connected, capable mount whose target right
\* ascension or target declination was never written returns value_not_set
\* and sends no goto command.
C38_SlewToUnsetTargetRefused ==
  SlewToUnsetTarget =>
    /\ Fails(last.res, value_not_set)
    /\ last.wire = <<>>

-----------------------------------------------------------------------------
(* Sync *)

\* this step is a synctocoordinates that the driver completed, on a mount
\* that was idle
SyncedIdle ==
  /\ sim.state = "no_op"
  /\ last'.op = "synctocoordinates"
  /\ last'.calls = 1
  /\ last'.ret.has_value

\* C39: a sync starts no motion: after synctocoordinates(ra, dec) succeeded
\* on an idle mount the mount is idle still, so that slewing reads false,
\* and the pointing it reports is the coordinates supplied.
C39_SyncStartsNoMotion ==
  [][SyncedIdle =>
       /\ sim'.state = "no_op"
       /\ NearTarget(Reported(sim'.rightascension) \div 15, last'.args[1])
       /\ NearTarget(Reported(sim'.declination), last'.args[2])]_vars

----------------------------------------------------------------------------
(* Two handler threads writing the site location of one mount.  A write of  *)
(* one coordinate is two exchanges, 'w' and then 'W' with the coordinate    *)
(* that was read; nothing holds a lock between the two.                     *)

\* site requests after which no new one is started
MaxSiteRequests == 3

SiteLatitudes == {10 * Milli, -20 * Milli}

SiteLongitudes == {30 * Milli, -40 * Milli}

SiteRequests ==
  {[op |-> "put_sitelatitude", angle |-> a] : a \in SiteLatitudes}
    \cup {[op |-> "put_sitelongitude", angle |-> a] : a \in SiteLongitudes}

\* the locals of a handler thread outside of a request
NoSiteRequest == [pc |-> "idle", op |-> "none", angle |-> 0,
              loc |-> [latitude |-> 0, longitude |-> 0]]

InitSite ==
  /\ is_connected = TRUE
  /\ flags = AllFlags
  /\ targetdeclination = TargetUnset
  /\ targetrightascension = TargetUnset
  /\ sim = simulator_protocol([latitude |-> 0, longitude |-> 0])
  /\ now = 0
  /\ last = NoCall
  /\ written = [targetdeclination |-> NeverWritten,
                targetrightascension |-> NeverWritten]
  /\ vin = NoVisit
  /\ thread = [t \in Threads |-> NoSiteRequest]
  /\ fd = "none"
  /\ server_transaction_id = 0
  /\ history = <<>>

\* put_sitelatitude or put_sitelongitude up to the end of its get_location:
\* thread t holds the location the mount answered
site_read(t) ==
  /\ thread[t].pc = "idle"
  /\ Len(history) + Cardinality({u \in Threads : thread[u].pc = "write"})
       < MaxSiteRequests
  /\ \E req \in SiteRequests :
       With(get_location(sim, NoExt, FALSE), LAMBDA x :
         /\ x.completed
         /\ sim' = x.sim
         /\ thread' = [thread EXCEPT ![t] = [pc |-> "write", op |-> req.op,
                                             angle |-> req.angle,
                                             loc |-> x.val]])
  /\ UNCHANGED <<is_connected, flags, targetdeclination, targetrightascension,
                 now, last, written, vin, fd, server_transaction_id, history>>

\* the flat_map of put_sitelatitude or put_sitelongitude: set_location with
\* the new coordinate and the other coordinate as thread t read it
site_write(t) ==
  /\ thread[t].pc = "write"
  /\ With(IF thread[t].op = "put_sitelatitude"
          THEN set_location(sim, thread[t].angle, thread[t].loc.longitude,
                            NoExt, FALSE)
          ELSE set_location(sim, thread[t].loc.latitude, thread[t].angle,
                            NoExt, FALSE), LAMBDA y :
       /\ y.completed
       /\ sim' = y.sim)
  /\ thread' = [thread EXCEPT ![t] = NoSiteRequest]
  /\ history' = Append(history, [of |-> t, op |-> thread[t].op,
                                 angle |-> thread[t].angle])
  /\ UNCHANGED <<is_connected, flags, targetdeclination, targetrightascension,
                 now, last, written, vin, fd, server_transaction_id>>

NextSite ==
  \/ \E t \in Threads : site_read(t)
  \/ \E t \in Threads : site_write(t)

SpecSite == InitSite /\ [][NextSite]_vars

\* the completed requests of one operation, in the order they completed
Completed(op) == SelectSeq(history, LAMBDA h : h.op = op)

\* the coordinate of the stored site location that op writes
Stored(op) ==
  IF op = "put_sitelatitude" THEN sim.latitude ELSE sim.longitude

\* C40: with no site request in flight, the stored site location has the
\* latitude of the last completed sitelatitude write and the longitude of the
\* last completed sitelongitude write: no write of one coordinate is lost to
\* a concurrent write of the other
C40_NoSiteUpdateLost ==
  (\A t \in Threads : thread[t].pc = "idle") =>
    \A op \in {"put_sitelatitude", "put_sitelongitude"} :
      Completed(op) # <<>> =>
        Stored(op) = Completed(op)[Len(Completed(op))].angle

====